---------------------------- MODULE Spec2Model ----------------------------
(***************************************************************************)
(* Session assembly pipeline of the CompTIA A+ practice exam simulator:    *)
(* the weighted allocator and plan builder (sessionPlanner.ts), the        *)
(* generate route with its validation and retry (api/generate.ts) and the  *)
(* resumable batch loop of the React app (App.tsx).                        *)
(***************************************************************************)
EXTENDS Integers, Sequences, FiniteSets, TLC

VARIABLES
    \* ---- allocateByWeight(total, blueprint) ----
    total,          \* argument total
    blueprint,      \* argument blueprint: the weights, keyed by position
    roundErr,       \* rounding error of each (weight / sum) * total
    counts,         \* the value returned (or the failure)
    allocPc,        \* "call" before the call, "done" after it
    \* ---- buildPlan(core, config) ----
    core,           \* argument core
    pbqCount,       \* config.pbqCount
    allocation,     \* const allocation
    plan,           \* const plan: QuestionPlanItem[]
    planI,          \* loop variable i of the loop in progress
    injected,       \* iterations the PBQ loop ran
    planPc,         \* "fill", "pbq", "multi", "done"
    \* ---- callOpenAI(model, items, difficulty) ----
    apiKey,         \* process.env.OPENAI_API_KEY is set
    items,          \* argument items: PlanItem[]
    attempt,        \* loop variable attempt
    lastErr,        \* let lastErr
    sent,           \* the requests made to the backend, in order
    failures,       \* the messages caught by the catch of the loop, in order
    accepted,       \* the parsed response validateBatch accepted
    callResult,     \* what the call returned or threw
    callPc,         \* "start", "fetch" (awaiting the backend), "done"
    \* ---- App (React component) ----
    stored,         \* localStorage[GENERATION_KEY]
    resumeGen,      \* state resumeGen
    screen,         \* state screen
    session,        \* state session
    result,         \* state result is set
    abortRef,       \* abortRef.current: the run whose controller it holds, or 0
    runs,           \* the invocations of runGeneration in progress
    sessionsMade,   \* session ids handed out by createEmptySession
    effects,        \* what the last handler did, in program order
    \* ---- handler(req, res) of the generate route ----
    clock,          \* Date.now()
    cache,          \* const cache: Map<string, CacheEntry>
    rate,           \* const rate: Map<string, { resetAt, count }>
    inFlight,       \* the requests awaiting callOpenAI
    response,       \* the request last handled and the response sent for it
    ticks,          \* the times the clock was advanced
    handled,        \* the requests received
    \* ---- normalizeQuestions and scoreExam ----
    quizItems,      \* argument items of normalizeQuestions
    questions,      \* session.questions
    answers,        \* argument answers, keyed by the position of the question
    pbqState,       \* argument pbqState: the order or pairs entered, likewise
    examResult,     \* the value scoreExam returned
    scorePc,        \* "normalize", "score", "done"
    \* ---- buildOfflineQuestions(core, sessionId, config, plan) ----
    offlineArgs,    \* the arguments of each call
    offline,        \* each call: "called" or "returned", and what it returned
    \* ---- runGeneration, followed from a persisted state ----
    genFrom,        \* the state runGeneration was started from
    requestsSent,   \* the calls of generateQuestions it made
    \* ---- App (React component): the exam countdown ----
    examScreen,     \* state screen: "exam", "review", "results"
    remainingSeconds, \* state remainingSeconds
    entered,        \* states answers and pbqState
    timerRef,       \* timerRef.current: set or null, and what its callback closed over
    timerResult,    \* state result
    attemptsRecorded, \* calls of recordAttempt
    \* ---- static app: simulateGenerating(done) ----
    simView,        \* state.view
    paused,         \* let paused
    progressN,      \* let n
    pendingTicks,   \* setTimeout(tick, 180) callbacks not yet run
    doneCalls,      \* calls of done
    clicks,         \* clicks on Pause and Resume
    \* ---- static app: startTimer, submitExam and the views ----
    view,           \* state.view
    stateSession,   \* state.session
    timerHandle,    \* timerHandle is set: the interval is running
    savedInProgress, \* localStorage[STORAGE_KEYS.inProgress]
    attemptsLog,    \* localStorage[STORAGE_KEYS.attempts], newest first
    sessionsStarted \* calls of newSession

allocVars == <<total, blueprint, roundErr, counts, allocPc>>
planVars == <<core, pbqCount, allocation, plan, planI, injected, planPc>>
callVars == <<apiKey, items, attempt, lastErr, sent, failures, accepted, callResult, callPc>>
appVars == <<stored, resumeGen, screen, session, result, abortRef, runs, sessionsMade, effects>>

routeVars == <<clock, cache, rate, inFlight, response, ticks, handled>>

scoreVars == <<quizItems, questions, answers, pbqState, examResult, scorePc>>

offlineVars == <<offlineArgs, offline>>

genVars == <<genFrom, requestsSent>>

timerVars == <<examScreen, remainingSeconds, entered, timerRef, timerResult, attemptsRecorded>>

simVars == <<simView, paused, progressN, pendingTicks, doneCalls, clicks>>

staticVars == <<view, stateSession, timerHandle, savedInProgress, attemptsLog, sessionsStarted>>

uiVars == <<genVars, timerVars, simVars, staticVars>>

vars == <<allocVars, planVars, callVars, appVars, routeVars, scoreVars, offlineVars, uiVars>>

(***************************************************************************)
(* Bounds of the model.                                                    *)
(***************************************************************************)
MaxKeys == 3        \* longest blueprint passed to allocateByWeight
MaxWeight == 3      \* largest weight of a blueprint entry
MaxTotal == 4       \* largest total passed to allocateByWeight
MaxUlp == 1         \* size of a rounding error, in signed steps
MaxPbqCount == 13   \* largest config.pbqCount
RandomGrid == 3     \* Math.random() returns one of 0/G, 1/G, .., (G-1)/G
MaxBatch == 2       \* most plan items in one call of callOpenAI
MaxRuns == 2        \* invocations of runGeneration in progress at once
MaxSessions == 1    \* sessions started by startNewSession
NumOptions == 4     \* options of a choice question
MaxCorrect == 2     \* longest list of correct indices
MaxExtra == 1       \* items by which a collected list differs in length from the plan
MaxBatchIndex == 2  \* batch indexes a request can carry
MaxVariants == 2    \* different batches the backend can return for one request
MaxInFlight == 2    \* requests awaiting callOpenAI at once
MaxTicks == 2       \* times the clock is advanced
MaxRequests == 3    \* requests received by the route
RngBits == 8        \* binary digits of the seeded generator
MaxOfflinePlan == 2 \* longest plan passed to buildOfflineQuestions
MaxExamSeconds == 6 \* seconds on the countdown of a new session of the static app
MaxStarts == 2      \* sessions started in the static app
MaxClicks == 6      \* clicks on Pause and Resume during one generation
MaxSeconds == 3     \* seconds on the countdown when the exam starts
MaxBatchSize == 3   \* largest batchSize of a persisted state, BATCH_SIZE and a whole plan apart

(***************************************************************************)
(* Arithmetic helpers.                                                     *)
(***************************************************************************)
RECURSIVE SumSeq(_)
SumSeq(s) == IF s = <<>> THEN 0 ELSE Head(s) + SumSeq(Tail(s))

RECURSIVE GCD(_, _)
GCD(a, b) == IF b = 0 THEN a ELSE GCD(b, a % b)

RECURSIVE IsPow2(_)
IsPow2(n) == IF n = 1 THEN TRUE ELSE IF n % 2 = 1 THEN FALSE ELSE IsPow2(n \div 2)

Min(a, b) == IF a < b THEN a ELSE b
Max(a, b) == IF a > b THEN a ELSE b

(***************************************************************************)
(* allocateByWeight.  The code computes in IEEE doubles.  A double is      *)
(* modelled by its exact rational value num/sum plus a rounding error of   *)
(* err steps, each far smaller than 1/sum.  d.weight / sum is exact iff    *)
(* the reduced denominator is a power of two; multiplying by 0 is exact;   *)
(* 0/0 is NaN and NaN propagates.                                          *)
(***************************************************************************)
NaN == [nan |-> TRUE, v |-> 0]
Num(x) == [nan |-> FALSE, v |-> x]

Inexact(w, sum, t) == sum > 0 /\ w > 0 /\ t # 0 /\ ~IsPow2(sum \div GCD(w, sum))

\* the rounding errors the doubles can show for these arguments
RoundErrs(t, bp) ==
    LET sum == SumSeq(bp)
    IN  { e \in [1..Len(bp) -> -MaxUlp..MaxUlp] :
            \A i \in 1..Len(bp) : ~Inexact(bp[i], sum, t) => e[i] = 0 }

\* mutant: Math.round in place of Math.floor
FloorOfRounded(w, sum, t, e) ==
    IF sum = 0 THEN NaN
    ELSE Num(((2 * w * t) + sum) \div (2 * sum))

\* Math.floor((d.weight / sum) * total)
FloorOf(w, sum, t, e) ==
    IF sum = 0 THEN NaN
    ELSE IF (w * t) % sum = 0 /\ e < 0 THEN Num(((w * t) \div sum) - 1)
    ELSE Num((w * t) \div sum)

\* r.exact - r.floor, as <<numerator over sum, rounding error>>
RemOf(w, sum, t, e) ==
    IF sum = 0 THEN <<NaN, 0>>
    ELSE <<Num((w * t) - FloorOf(w, sum, t, e).v * sum), e>>

\* b.rem - a.rem < 0 : a sorts before b
RemGreater(a, b) ==
    /\ ~a[1].nan /\ ~b[1].nan
    /\ \/ a[1].v > b[1].v
       \/ a[1].v = b[1].v /\ a[2] > b[2]

\* position (from 0) of key i after the stable sort by descending rem
RankOf(i, rem) ==
    Cardinality({ j \in DOMAIN rem :
        RemGreater(rem[j], rem[i]) \/ (~RemGreater(rem[i], rem[j]) /\ j < i) })

\* raw.map(...).sort((a, b) => b.rem - a.rem), as the keys in sorted order
ByRemainder(rem) ==
    [p \in 1..Len(rem) |-> CHOOSE i \in DOMAIN rem : RankOf(i, rem) = p - 1]

\* mutant: used - total in place of total - used
RemainingFlipped(t, floor) ==
    IF \E i \in DOMAIN floor : floor[i].nan THEN NaN
    ELSE Num(SumSeq([i \in DOMAIN floor |-> floor[i].v]) - t)

\* total - used
Remaining(t, floor) ==
    IF \E i \in DOMAIN floor : floor[i].nan THEN NaN
    ELSE Num(t - SumSeq([i \in DOMAIN floor |-> floor[i].v]))

\* mutant: byRemainder[0] in place of byRemainder[i % byRemainder.length]
ExtraOfFirstOnly(k, remaining, byRemainder) ==
    IF remaining.nan THEN 0
    ELSE IF byRemainder[1] = k THEN Max(remaining.v, 0) ELSE 0

\* how many of the iterations i = 0 .. remaining-1 add one to key k
ExtraOf(k, remaining, byRemainder) ==
    IF remaining.nan THEN 0
    ELSE Cardinality({ i \in 0..(remaining.v - 1) :
            byRemainder[(i % Len(byRemainder)) + 1] = k })

allocateByWeight(t, bp, e) ==
    LET n == Len(bp)
        sum == SumSeq(bp)
        floor == [i \in 1..n |-> FloorOf(bp[i], sum, t, e[i])]
        rem == [i \in 1..n |-> RemOf(bp[i], sum, t, e[i])]
        remaining == Remaining(t, floor)
        byRemainder == ByRemainder(rem)
    IN  IF n = 0
        THEN IF remaining.v > 0
             THEN [status |-> "TypeError", counts |-> <<>>]
             ELSE [status |-> "returned", counts |-> <<>>]
        ELSE [status |-> "returned",
              counts |-> [k \in 1..n |->
                 IF floor[k].nan THEN NaN
                 ELSE Num(floor[k].v + ExtraOf(k, remaining, byRemainder))]]

(***************************************************************************)
(* A call of the allocator on its own: any total and blueprint.            *)
(***************************************************************************)
Blueprints == UNION { [1..n -> 0..MaxWeight] : n \in 0..MaxKeys }

NoCall == [status |-> "none", counts |-> <<>>]

AllocInit ==
    /\ total \in -1..MaxTotal
    /\ blueprint \in Blueprints
    /\ roundErr = [i \in 1..Len(blueprint) |-> 0]
    /\ counts = NoCall
    /\ allocPc = "call"

AllocIdle ==
    /\ total = 0
    /\ blueprint = <<>>
    /\ roundErr = <<>>
    /\ counts = NoCall
    /\ allocPc = "idle"

AllocateCall ==
    /\ allocPc = "call"
    /\ \E e \in RoundErrs(total, blueprint) :
        /\ roundErr' = e
        /\ counts' = allocateByWeight(total, blueprint, e)
    /\ allocPc' = "done"
    /\ UNCHANGED <<total, blueprint>>
    /\ UNCHANGED <<planVars, callVars, appVars, routeVars, scoreVars, offlineVars, uiVars>>

(***************************************************************************)
(* buildPlan.  A plan item carries its domainNumber and its type; the      *)
(* objective fields are drawn from the objective catalogue, which no       *)
(* statement of buildPlan reads back.                                      *)
(***************************************************************************)
EXAM_QUESTION_COUNT == 90

CORE1_BLUEPRINT ==
    << [domainNumber |-> "1.0", weight |-> 13],
       [domainNumber |-> "2.0", weight |-> 23],
       [domainNumber |-> "3.0", weight |-> 25],
       [domainNumber |-> "4.0", weight |-> 11],
       [domainNumber |-> "5.0", weight |-> 28] >>

CORE2_BLUEPRINT ==
    << [domainNumber |-> "1.0", weight |-> 28],
       [domainNumber |-> "2.0", weight |-> 28],
       [domainNumber |-> "3.0", weight |-> 23],
       [domainNumber |-> "4.0", weight |-> 21] >>

Cores == {"220-1201", "220-1202"}

BlueprintOf(c) == IF c = "220-1201" THEN CORE1_BLUEPRINT ELSE CORE2_BLUEPRINT

Weights(bp) == [k \in DOMAIN bp |-> bp[k].weight]

PbqTypes == {"pbq-order", "pbq-match"}
QuestionTypes == {"single", "multi"} \cup PbqTypes

\* Math.floor(Math.random() * n)
RandomIndexes(n) == { (k * n) \div RandomGrid : k \in 0..(RandomGrid - 1) }

\* mutant: the inner loop runs once more than count
DomainCountAndOne(alloc, k) ==
    IF k \in DOMAIN alloc.counts THEN alloc.counts[k].v + 1 ELSE 1

\* allocation[d.domainNumber] ?? 0
DomainCount(alloc, k) ==
    IF k \in DOMAIN alloc.counts THEN alloc.counts[k].v ELSE 0

\* the items pushed by the loop over the blueprint, domain k first
RECURSIVE PlanFrom(_, _, _)
PlanFrom(bp, alloc, k) ==
    IF k > Len(bp) THEN <<>>
    ELSE [i \in 1..Max(DomainCount(alloc, k), 0) |->
              [domainNumber |-> bp[k].domainNumber, type |-> "single"]]
         \o PlanFrom(bp, alloc, k + 1)

\* mutant: the cap of 12 left out
PbqQuotaUncapped(requested) == Max(0, requested)

\* Math.max(0, Math.min(config.pbqCount, 12))
PbqQuota(requested) == Max(0, Min(requested, 12))

\* Math.min(10, Math.floor(plan.length * 0.12))
MultiQuota(n) == Min(10, (n * 12) \div 100)

\* mutant: the entry becomes multi whatever its type
SprinkleAtAny(p, idx) == [p EXCEPT ![idx + 1].type = "multi"]

\* line 90: if (plan[idx].type === "single") plan[idx] = { ...plan[idx], type: "multi" }
SprinkleAt(p, idx) ==
    IF p[idx + 1].type = "single" THEN [p EXCEPT ![idx + 1].type = "multi"] ELSE p

\* plan.slice(0, EXAM_QUESTION_COUNT)
SliceHead(s, n) == SubSeq(s, 1, Min(Len(s), n))

PlanInit ==
    /\ core \in Cores
    /\ pbqCount \in -1..MaxPbqCount
    /\ allocation = NoCall
    /\ plan = <<>>
    /\ planI = 0
    /\ injected = 0
    /\ planPc = "fill"

PlanIdle ==
    /\ core = "220-1201"
    /\ pbqCount = 0
    /\ allocation = NoCall
    /\ plan = <<>>
    /\ planI = 0
    /\ injected = 0
    /\ planPc = "idle"

\* lines 53-74: allocate, then push count items per domain
BuildPlanFill ==
    /\ planPc = "fill"
    /\ \E e \in RoundErrs(EXAM_QUESTION_COUNT, Weights(BlueprintOf(core))) :
         LET alloc == allocateByWeight(EXAM_QUESTION_COUNT, Weights(BlueprintOf(core)), e)
         IN  /\ allocation' = alloc
             /\ plan' = PlanFrom(BlueprintOf(core), alloc, 1)
    /\ planI' = 0
    /\ planPc' = "pbq"
    /\ UNCHANGED <<core, pbqCount, injected>>
    /\ UNCHANGED <<allocVars, callVars, appVars, routeVars, scoreVars, offlineVars, uiVars>>

\* lines 78-84: one iteration of the PBQ loop
BuildPlanInjectPbq ==
    /\ planPc = "pbq"
    /\ planI < PbqQuota(pbqCount)
    /\ \E idx \in RandomIndexes(Len(plan)), t \in PbqTypes :
         plan' = [plan EXCEPT ![idx + 1].type = t]
    /\ planI' = planI + 1
    /\ injected' = injected + 1
    /\ UNCHANGED <<core, pbqCount, allocation, planPc>>
    /\ UNCHANGED <<allocVars, callVars, appVars, routeVars, scoreVars, offlineVars, uiVars>>

\* line 78: the PBQ loop ends
BuildPlanPbqDone ==
    /\ planPc = "pbq"
    /\ ~(planI < PbqQuota(pbqCount))
    /\ planI' = 0
    /\ planPc' = "multi"
    /\ UNCHANGED <<core, pbqCount, allocation, plan, injected>>
    /\ UNCHANGED <<allocVars, callVars, appVars, routeVars, scoreVars, offlineVars, uiVars>>

\* lines 88-91: one iteration of the multi-select loop
BuildPlanSprinkleMulti ==
    /\ planPc = "multi"
    /\ planI < MultiQuota(Len(plan))
    /\ \E idx \in RandomIndexes(Len(plan)) : plan' = SprinkleAt(plan, idx)
    /\ planI' = planI + 1
    /\ UNCHANGED <<core, pbqCount, allocation, injected, planPc>>
    /\ UNCHANGED <<allocVars, callVars, appVars, routeVars, scoreVars, offlineVars, uiVars>>

\* lines 88, 93: the multi-select loop ends and the plan is returned
BuildPlanReturn ==
    /\ planPc = "multi"
    /\ ~(planI < MultiQuota(Len(plan)))
    /\ plan' = SliceHead(plan, EXAM_QUESTION_COUNT)
    /\ planPc' = "done"
    /\ UNCHANGED <<core, pbqCount, allocation, planI, injected>>
    /\ UNCHANGED <<allocVars, callVars, appVars, routeVars, scoreVars, offlineVars, uiVars>>

(***************************************************************************)
(* callOpenAI of the generate route.  A backend reply is its HTTP status   *)
(* and what extractJsonObject finds in its text.  An item of the reply is  *)
(* its type and the lengths of its arrays; Absent stands for a field that  *)
(* is missing or not an array.                                             *)
(***************************************************************************)
Absent == -1

Item(t, base, f) ==
    [type |-> t, base |-> base,
     options |-> f[1], correctIndices |-> f[2],
     orderItems |-> f[3], correctOrder |-> f[4],
     left |-> f[5], right |-> f[6], correctPairs |-> f[7]]

ChoiceItem(t, o, c) == Item(t, TRUE, <<o, c, Absent, Absent, Absent, Absent, Absent>>)
OrderItem(o, c) == Item("pbq-order", TRUE, <<Absent, Absent, o, c, Absent, Absent, Absent>>)
MatchItem(l, r, p) == Item("pbq-match", TRUE, <<Absent, Absent, Absent, Absent, l, r, p>>)

\* one well-formed item of each type
PlainItems ==
    { ChoiceItem("single", 4, 1), ChoiceItem("multi", 5, 2),
      OrderItem(4, 4), MatchItem(3, 3, 3) }

\* items on and just beyond every limit validateBatch tests
EdgeItems ==
    { ChoiceItem(t, o, 1) : t \in {"single", "multi"}, o \in {Absent, 3, 4, 6, 7} }
    \cup { ChoiceItem(t, 4, c) : t \in {"single", "multi"}, c \in {Absent, 0, 1, 3, 4} }
    \cup { OrderItem(o, o) : o \in {Absent, 3, 4, 8, 9} }
    \cup { OrderItem(4, c) : c \in {Absent, 3, 5} }
    \cup { MatchItem(l, 3, 1) : l \in {Absent, 2, 3, 8, 9} }
    \cup { MatchItem(3, r, 1) : r \in {Absent, 2, 3, 8, 9} }
    \cup { MatchItem(3, 3, p) : p \in {Absent, 0, 1} }
    \cup { Item("essay", TRUE, <<4, 1, Absent, Absent, Absent, Absent, Absent>>),
           Item("single", FALSE, <<4, 1, Absent, Absent, Absent, Absent, Absent>>) }

\* item lists of length n with at most one item off the plain ones
ItemLists(n) ==
    [1..n -> PlainItems]
    \cup { [i \in 1..n |-> IF i = p THEN x ELSE rest[i]] :
             p \in 1..n, x \in EdgeItems, rest \in [1..n -> PlainItems] }

NotAnArray == <<Item("not an array", FALSE, <<Absent, Absent, Absent, Absent, Absent, Absent, Absent>>)>>

\* the replies the backend can give to a request for n items
Replies(n) ==
    { [ok |-> FALSE, json |-> "none", keys |-> {}, isArray |-> FALSE, items |-> <<>>] }
    \cup { [ok |-> TRUE, json |-> j, keys |-> {}, isArray |-> FALSE, items |-> <<>>] :
             j \in {"no object", "syntax error"} }
    \cup { [ok |-> TRUE, json |-> "object", keys |-> k, isArray |-> TRUE, items |-> <<>>] :
             k \in {{}, {"note"}, {"items", "note"}} }
    \cup { [ok |-> TRUE, json |-> "object", keys |-> {"items"}, isArray |-> FALSE, items |-> NotAnArray] }
    \cup { [ok |-> TRUE, json |-> "object", keys |-> {"items"}, isArray |-> TRUE, items |-> l] :
             l \in ItemLists(n) }
    \cup { [ok |-> TRUE, json |-> "object", keys |-> {"items"}, isArray |-> TRUE,
             items |-> [i \in 1..m |-> ChoiceItem("single", 4, 1)]] :
             m \in {n - 1, n + 1} \cap Nat }

NoReply == [ok |-> FALSE, json |-> "none", keys |-> {}, isArray |-> FALSE, items |-> <<>>]

Msg(text) == [text |-> text, got |-> 0, expected |-> 0]
LengthMsg(got, expected) == [text |-> "'items' length !== expected", got |-> got, expected |-> expected]
Null == Msg("null")
NoError == Msg("")

\* mutant: the upper limits of the array lengths left out
ItemErrorNoUpper(q) ==
    IF ~q.base THEN Msg("Missing required field.")
    ELSE IF q.type \notin QuestionTypes THEN Msg("Invalid type.")
    ELSE IF q.type \in {"single", "multi"}
    THEN IF q.options = Absent \/ q.options < 4
         THEN Msg("options must be 4..6 strings.")
         ELSE IF q.correctIndices = Absent \/ q.correctIndices < 1
         THEN Msg("correctIndices must be 1..3 integers.")
         ELSE NoError
    ELSE IF q.type = "pbq-order"
    THEN IF q.orderItems = Absent \/ q.orderItems < 4
         THEN Msg("orderItems must be 4..8 strings.")
         ELSE IF q.correctOrder = Absent \/ q.correctOrder # q.orderItems
         THEN Msg("correctOrder length must match orderItems length.")
         ELSE NoError
    ELSE IF q.left = Absent \/ q.left < 3
         THEN Msg("left must be 3..8 strings.")
         ELSE IF q.right = Absent \/ q.right < 3
         THEN Msg("right must be 3..8 strings.")
         ELSE IF q.correctPairs = Absent \/ q.correctPairs < 1
         THEN Msg("correctPairs must be a non-empty array.")
         ELSE NoError

\* lines 162-180: the checks of one item q, the message thrown or NoError
ItemError(q) ==
    IF ~q.base THEN Msg("Missing required field.")
    ELSE IF q.type \notin QuestionTypes THEN Msg("Invalid type.")
    ELSE IF q.type \in {"single", "multi"}
    THEN IF q.options = Absent \/ q.options < 4 \/ q.options > 6
         THEN Msg("options must be 4..6 strings.")
         ELSE IF q.correctIndices = Absent \/ q.correctIndices < 1 \/ q.correctIndices > 3
         THEN Msg("correctIndices must be 1..3 integers.")
         ELSE NoError
    ELSE IF q.type = "pbq-order"
    THEN IF q.orderItems = Absent \/ q.orderItems < 4 \/ q.orderItems > 8
         THEN Msg("orderItems must be 4..8 strings.")
         ELSE IF q.correctOrder = Absent \/ q.correctOrder # q.orderItems
         THEN Msg("correctOrder length must match orderItems length.")
         ELSE NoError
    ELSE IF q.left = Absent \/ q.left < 3 \/ q.left > 8
         THEN Msg("left must be 3..8 strings.")
         ELSE IF q.right = Absent \/ q.right < 3 \/ q.right > 8
         THEN Msg("right must be 3..8 strings.")
         ELSE IF q.correctPairs = Absent \/ q.correctPairs < 1
         THEN Msg("correctPairs must be a non-empty array.")
         ELSE NoError

\* the message of the first item of l that fails, or NoError
RECURSIVE FirstItemError(_)
FirstItemError(l) ==
    IF l = <<>> THEN NoError
    ELSE IF ItemError(Head(l)) # NoError THEN ItemError(Head(l))
    ELSE FirstItemError(Tail(l))

\* extractJsonObject followed by validateBatch: the message thrown or NoError
ValidationError(reply, want) ==
    IF reply.json = "no object" THEN Msg("Model did not return a JSON object.")
    ELSE IF reply.json = "syntax error" THEN Msg("Unexpected token in JSON")
    ELSE IF reply.keys # {"items"} THEN Msg("Top-level must contain only 'items'.")
    ELSE IF ~reply.isArray THEN Msg("'items' must be an array.")
    ELSE IF Len(reply.items) # Len(want) THEN LengthMsg(Len(reply.items), Len(want))
    ELSE FirstItemError(reply.items)

\* mutant: the instruction is extended on the first attempt, not the second
FixInstructionFirst(n, err) == IF n = 0 /\ err # Null THEN err ELSE Null

\* lines 189-192: the error appended to the system text of attempt n
FixInstruction(n, err) == IF n = 1 /\ err # Null THEN err ELSE Null

\* line 188: attempt < 2
MoreAttempts(n) == n < 2

PlanItemLists == UNION { [1..n -> QuestionTypes] : n \in 1..MaxBatch }

Pending == [status |-> "pending", items |-> <<>>, error |-> Null, detail |-> Null]
Returned(l) == [status |-> "returned", items |-> l, error |-> Null, detail |-> Null]
Threw(kind, detail) == [status |-> "threw", items |-> <<>>, error |-> Msg(kind), detail |-> detail]

CallInit ==
    /\ apiKey \in BOOLEAN
    /\ items \in PlanItemLists
    /\ attempt = 0
    /\ lastErr = Null
    /\ sent = <<>>
    /\ failures = <<>>
    /\ accepted = NoReply
    /\ callResult = Pending
    /\ callPc = "start"

CallIdle ==
    /\ apiKey = TRUE
    /\ items = <<>>
    /\ attempt = 0
    /\ lastErr = Null
    /\ sent = <<>>
    /\ failures = <<>>
    /\ accepted = NoReply
    /\ callResult = Pending
    /\ callPc = "idle"

\* lines 188-211: build the request of this attempt and await fetch
SendAttempt(n, err) == Append(sent, [attempt |-> n, fix |-> FixInstruction(n, err)])

\* lines 95-96: no key, the call throws before any request
CallOpenAINoKey ==
    /\ callPc = "start"
    /\ ~apiKey
    /\ callResult' = Threw("Missing OPENAI_API_KEY", Null)
    /\ callPc' = "done"
    /\ UNCHANGED <<apiKey, items, attempt, lastErr, sent, failures, accepted>>
    /\ UNCHANGED <<allocVars, planVars, appVars, routeVars, scoreVars, offlineVars, uiVars>>

\* lines 95-211: the call runs up to the fetch of attempt 0
CallOpenAIStart ==
    /\ callPc = "start"
    /\ apiKey
    /\ MoreAttempts(attempt)
    /\ sent' = SendAttempt(attempt, lastErr)
    /\ callPc' = "fetch"
    /\ UNCHANGED <<apiKey, items, attempt, lastErr, failures, accepted, callResult>>
    /\ UNCHANGED <<allocVars, planVars, appVars, routeVars, scoreVars, offlineVars, uiVars>>

\* lines 213-216: the backend answers with an error status
CallOpenAINotOk ==
    /\ callPc = "fetch"
    /\ \E reply \in Replies(Len(items)) :
         /\ ~reply.ok
         /\ callResult' = Threw("OpenAI error", Null)
    /\ callPc' = "done"
    /\ UNCHANGED <<apiKey, items, attempt, lastErr, sent, failures, accepted>>
    /\ UNCHANGED <<allocVars, planVars, appVars, routeVars, scoreVars, offlineVars, uiVars>>

\* lines 218-238: the reply parses and validates, the items are returned
CallOpenAIValid ==
    /\ callPc = "fetch"
    /\ \E reply \in Replies(Len(items)) :
         /\ reply.ok
         /\ ValidationError(reply, items) = NoError
         /\ accepted' = reply
         /\ callResult' = Returned(reply.items)
    /\ callPc' = "done"
    /\ UNCHANGED <<apiKey, items, attempt, lastErr, sent, failures>>
    /\ UNCHANGED <<allocVars, planVars, appVars, routeVars, scoreVars, offlineVars, uiVars>>

\* lines 239-241, 188-211: the reply is invalid, the next attempt is sent
CallOpenAIRetry ==
    /\ callPc = "fetch"
    /\ MoreAttempts(attempt + 1)
    /\ \E reply \in Replies(Len(items)) :
         /\ reply.ok
         /\ ValidationError(reply, items) # NoError
         /\ lastErr' = ValidationError(reply, items)
         /\ failures' = Append(failures, ValidationError(reply, items))
         /\ sent' = SendAttempt(attempt + 1, ValidationError(reply, items))
    /\ attempt' = attempt + 1
    /\ UNCHANGED <<apiKey, items, accepted, callResult, callPc>>
    /\ UNCHANGED <<allocVars, planVars, appVars, routeVars, scoreVars, offlineVars, uiVars>>

\* lines 239-244: the reply is invalid and no attempt is left
CallOpenAIGiveUp ==
    /\ callPc = "fetch"
    /\ ~MoreAttempts(attempt + 1)
    /\ \E reply \in Replies(Len(items)) :
         /\ reply.ok
         /\ ValidationError(reply, items) # NoError
         /\ lastErr' = ValidationError(reply, items)
         /\ failures' = Append(failures, ValidationError(reply, items))
         /\ callResult' = Threw("Model returned invalid JSON after retries", ValidationError(reply, items))
    /\ attempt' = attempt + 1
    /\ callPc' = "done"
    /\ UNCHANGED <<apiKey, items, sent, accepted>>
    /\ UNCHANGED <<allocVars, planVars, appVars, routeVars, scoreVars, offlineVars, uiVars>>

(***************************************************************************)
(* The React app: startNewSession, resumeGeneration, runGeneration and the *)
(* screens around them.  A handler runs from its event to its next await   *)
(* in one step.  An item of a batch is opaque to the app: it carries the   *)
(* type it was asked with and, for the record, the generation and the plan *)
(* index whose request it answers.                                         *)
(***************************************************************************)
BATCH_SIZE == 10

Undefined == Msg("undefined")
Paused == Msg("Paused.")

NoGen ==
    [present |-> FALSE, sessionId |-> 0, core |-> "220-1201", plan |-> <<>>,
     rawItems |-> <<>>, nextIndex |-> 0, batchSize |-> 0, lastError |-> Undefined]

NoSession == [present |-> FALSE, sessionId |-> 0, core |-> "220-1201", questions |-> 0]

\* a plan buildPlan returns: the blueprint's counts, one entry made multi
SamplePlan(c) ==
    LET w == Weights(BlueprintOf(c))
        alloc == allocateByWeight(EXAM_QUESTION_COUNT, w, [k \in DOMAIN w |-> 0])
    IN  [PlanFrom(BlueprintOf(c), alloc, 1) EXCEPT ![1].type = "multi"]

IdleRun == [pc |-> "idle", g |-> NoGen, items |-> <<>>, nextIndex |-> 0, i |-> 0, aborted |-> FALSE]

Effect(op, r, i, g, out) == [op |-> op, run |-> r, i |-> i, value |-> g, out |-> out]

\* plan.slice(i, i + batchSize)
Chunk(g, i) == SubSeq(g.plan, i + 1, Min(i + g.batchSize, Len(g.plan)))

ChunkTypes(g, i) == [k \in DOMAIN Chunk(g, i) |-> Chunk(g, i)[k].type]

\* the item counts the generate route lets through for this chunk
ReplyLengths(g, i) ==
    { n \in 0..(Len(Chunk(g, i)) + 1) :
        ValidationError([ok |-> TRUE, json |-> "object", keys |-> {"items"}, isArray |-> TRUE,
                         items |-> [k \in 1..n |-> ChoiceItem("single", 4, 1)]],
                        ChunkTypes(g, i)) = NoError }

\* the n items answering the request for the chunk at i
GeneratedBatch(g, i, n) ==
    [k \in 1..n |-> [generationId |-> g.sessionId, planIndex |-> i + k - 1,
                     type |-> IF k <= Len(Chunk(g, i)) THEN Chunk(g, i)[k].type ELSE "single"]]

\* messages of the errors generateQuestions throws
FailureMessages == { Msg("Generate failed (500)"), Msg("Failed to fetch") }

\* normalizeQuestions(...).slice(0, EXAM_QUESTION_COUNT).length
NormalizedCount(its) ==
    Min(Cardinality({ k \in DOMAIN its : its[k].type \in QuestionTypes }), EXAM_QUESTION_COUNT)

\* mutant: the items collected before the resume are not carried over
InitialItemsEmpty(g) == <<>>

\* line 175: const items = [...(g.rawItems ?? [])]
InitialItems(g) == g.rawItems

\* mutant: the checkpoint keeps the index the run started from
CheckpointNotAdvanced(g, its, ni) ==
    [g EXCEPT !.rawItems = its, !.lastError = Undefined]

\* lines 203-208: the state saved after a batch
Checkpoint(g, its, ni) ==
    [g EXCEPT !.rawItems = its, !.nextIndex = ni, !.lastError = Undefined]

\* mutant: the catch block removes the state
FailedStateRemoved(g, its, ni, msg) == NoGen

\* lines 237-242: the state saved by the catch block
FailedState(g, its, ni, msg) ==
    [g EXCEPT !.rawItems = its, !.nextIndex = ni, !.lastError = msg]

FreeRuns == { r \in 1..MaxRuns : runs[r].pc = "idle" }

\* the values a handler has given to the state it shares, so far
Now == [stored |-> stored, screen |-> screen, session |-> session,
        result |-> result, abortRef |-> abortRef, effects |-> <<>>]

\* saveGeneration(g); setResumeGen(g)
Save(cur, r, g) ==
    [cur EXCEPT !.stored = g,
                !.effects = @ \o <<Effect(IF g.present THEN "save" ELSE "remove", r, g.nextIndex, g, <<>>)>>]

\* the handler ends: its values become the state
Commit(cur) ==
    /\ stored' = cur.stored
    /\ resumeGen' = cur.stored
    /\ screen' = cur.screen
    /\ session' = cur.session
    /\ result' = cur.result
    /\ abortRef' = cur.abortRef
    /\ effects' = cur.effects

\* lines 235-252: the catch block and finally
CatchBlock(cur, r, g, its, ni, msg) ==
    /\ Commit([Save(cur, r, FailedState(g, its, ni, msg)) EXCEPT !.screen = "setup", !.abortRef = 0])
    /\ runs' = [runs EXCEPT ![r] = IdleRun]

\* mutant: the loop goes on while i <= plan.length
LoopHeadOneMore(cur, r, g, its, ni, i) ==
    IF i <= Len(g.plan)
    THEN /\ runs' = [runs EXCEPT ![r] = [pc |-> "await", g |-> g, items |-> its,
                                         nextIndex |-> ni, i |-> i, aborted |-> FALSE]]
         /\ Commit([cur EXCEPT !.effects = @ \o <<Effect("request", r, i, g, <<>>)>>])
    ELSE IF NormalizedCount(its) # EXAM_QUESTION_COUNT
    THEN CatchBlock(cur, r, g, its, ni, Msg("Generator returned a wrong number of questions"))
    ELSE /\ Commit([Save(cur, r, NoGen) EXCEPT
                      !.session = [present |-> TRUE, sessionId |-> g.sessionId,
                                   core |-> g.core, questions |-> NormalizedCount(its)],
                      !.result = FALSE,
                      !.screen = "exam",
                      !.abortRef = 0])
         /\ runs' = [runs EXCEPT ![r] = IdleRun]

\* lines 184-198 at the loop head with index i, lines 214-252 past the loop
LoopHead(cur, r, g, its, ni, i) ==
    IF i < Len(g.plan)
    THEN /\ runs' = [runs EXCEPT ![r] = [pc |-> "await", g |-> g, items |-> its,
                                         nextIndex |-> ni, i |-> i, aborted |-> FALSE]]
         /\ Commit([cur EXCEPT !.effects = @ \o <<Effect("request", r, i, g, <<>>)>>])
    ELSE IF NormalizedCount(its) # EXAM_QUESTION_COUNT
    THEN CatchBlock(cur, r, g, its, ni, Msg("Generator returned a wrong number of questions"))
    ELSE /\ Commit([Save(cur, r, NoGen) EXCEPT
                      !.session = [present |-> TRUE, sessionId |-> g.sessionId,
                                   core |-> g.core, questions |-> NormalizedCount(its)],
                      !.result = FALSE,
                      !.screen = "exam",
                      !.abortRef = 0])
         /\ runs' = [runs EXCEPT ![r] = IdleRun]

\* the fields of g that runGeneration reads after its first await: both
\* spreads {...g} replace rawItems, nextIndex and lastError
Captured(g) == [g EXCEPT !.rawItems = <<>>, !.nextIndex = 0, !.lastError = Undefined]

\* mutant: the loop starts at the first plan entry again
RunGenerationFromStart(cur, r, g) ==
    LoopHead([cur EXCEPT !.screen = "generating", !.abortRef = r],
             r, Captured(g), InitialItems(g), g.nextIndex, 0)

\* lines 173-198: runGeneration(g) up to its first await, as run r
RunGeneration(cur, r, g) ==
    LoopHead([cur EXCEPT !.screen = "generating", !.abortRef = r],
             r, Captured(g), InitialItems(g), g.nextIndex, g.nextIndex)

\* line 57: the core selected when the app starts
InitialCore == "220-1201"

FirstFreeRun == CHOOSE x \in FreeRuns : \A y \in FreeRuns : x <= y

AppInit ==
    /\ stored = NoGen
    /\ resumeGen = NoGen
    /\ screen = "setup"
    /\ session = NoSession
    /\ result = FALSE
    /\ abortRef = 0
    /\ runs = [r \in 1..MaxRuns |-> IdleRun]
    /\ sessionsMade = 0
    /\ effects = <<>>

AppIdle ==
    /\ stored = NoGen
    /\ resumeGen = NoGen
    /\ screen = "idle"
    /\ session = NoSession
    /\ result = FALSE
    /\ abortRef = 0
    /\ runs = <<>>
    /\ sessionsMade = 0
    /\ effects = <<>>

\* lines 270-300: Start Session on setup, Start Another Session on results
StartNewSession ==
    /\ \/ screen = "setup"
       \/ screen = "results" /\ session.present /\ result
    /\ sessionsMade < MaxSessions
    /\ FreeRuns # {}
    /\ LET c == IF screen = "results" THEN session.core ELSE InitialCore
           g == [present |-> TRUE, sessionId |-> sessionsMade + 1, core |-> c,
                 plan |-> SamplePlan(c), rawItems |-> <<>>, nextIndex |-> 0,
                 batchSize |-> BATCH_SIZE, lastError |-> Undefined]
       IN  RunGeneration([Save(Now, FirstFreeRun, g) EXCEPT !.session = NoSession, !.result = FALSE],
                         FirstFreeRun, g)
    /\ sessionsMade' = sessionsMade + 1
    /\ UNCHANGED <<allocVars, planVars, callVars, routeVars, scoreVars, offlineVars, uiVars>>

\* lines 260-269: Resume on setup
ResumeGenerationStep ==
    /\ screen = "setup"
    /\ resumeGen.present
    /\ stored.present
    /\ FreeRuns # {}
    /\ RunGeneration(Now, FirstFreeRun, stored)
    /\ UNCHANGED sessionsMade

ResumeGeneration ==
    /\ ResumeGenerationStep
    /\ UNCHANGED <<allocVars, planVars, callVars, routeVars, scoreVars, offlineVars, uiVars>>

\* lines 200-212 and on: the batch requested by run r arrives
BatchSucceedsStep(r) ==
    /\ runs[r].pc = "await"
    /\ ~runs[r].aborted
    /\ \E n \in ReplyLengths(runs[r].g, runs[r].i) :
         LET g == runs[r].g
             i == runs[r].i
             out == GeneratedBatch(g, i, n)
             its == runs[r].items \o out
             ni == Min(i + g.batchSize, Len(g.plan))
             cur == [Now EXCEPT !.effects = <<Effect("reply", r, i, g, out)>>]
         IN  LoopHead(Save(cur, r, Checkpoint(g, its, ni)), r, g, its, ni, i + g.batchSize)
    /\ UNCHANGED sessionsMade

BatchSucceeds(r) ==
    /\ BatchSucceedsStep(r)
    /\ UNCHANGED <<allocVars, planVars, callVars, routeVars, scoreVars, offlineVars, uiVars>>

\* lines 235-252: generateQuestions of run r throws an error
BatchFails(r) ==
    /\ runs[r].pc = "await"
    /\ ~runs[r].aborted
    /\ \E msg \in FailureMessages :
         CatchBlock([Now EXCEPT !.effects = <<Effect("error", r, runs[r].i, runs[r].g, <<>>)>>],
                    r, runs[r].g, runs[r].items, runs[r].nextIndex, msg)
    /\ UNCHANGED sessionsMade
    /\ UNCHANGED <<allocVars, planVars, callVars, routeVars, scoreVars, offlineVars, uiVars>>

\* lines 235-252: the fetch of run r rejects with AbortError
BatchAborted(r) ==
    /\ runs[r].pc = "await"
    /\ runs[r].aborted
    /\ CatchBlock([Now EXCEPT !.effects = <<Effect("abort", r, runs[r].i, runs[r].g, <<>>)>>],
                  r, runs[r].g, runs[r].items, runs[r].nextIndex, Paused)
    /\ UNCHANGED sessionsMade
    /\ UNCHANGED <<allocVars, planVars, callVars, routeVars, scoreVars, offlineVars, uiVars>>

\* Pause on the generating screen: abortRef.current?.abort()
CancelGeneration ==
    /\ screen = "generating"
    /\ abortRef # 0
    /\ runs[abortRef].pc = "await"
    /\ ~runs[abortRef].aborted
    /\ runs' = [runs EXCEPT ![abortRef].aborted = TRUE]
    /\ effects' = <<Effect("pause", abortRef, 0, NoGen, <<>>)>>
    /\ UNCHANGED <<stored, resumeGen, screen, session, result, abortRef, sessionsMade>>
    /\ UNCHANGED <<allocVars, planVars, callVars, routeVars, scoreVars, offlineVars, uiVars>>

\* lines 255-258: Discard on setup
DiscardGeneration ==
    /\ screen = "setup"
    /\ resumeGen.present
    /\ Commit(Save(Now, 0, NoGen))
    /\ UNCHANGED <<runs, sessionsMade>>
    /\ UNCHANGED <<allocVars, planVars, callVars, routeVars, scoreVars, offlineVars, uiVars>>

\* a button that only calls setScreen
Navigate(to) ==
    /\ screen' = to
    /\ effects' = <<>>
    /\ UNCHANGED <<stored, resumeGen, session, result, abortRef, runs, sessionsMade>>
    /\ UNCHANGED <<allocVars, planVars, callVars, routeVars, scoreVars, offlineVars, uiVars>>

\* lines 342, 416, 662: Analytics, shown on every screen but exam
OpenAnalytics == screen \notin {"exam", "analytics"} /\ Navigate("analytics")

\* line 669: onClose of the analytics dashboard
CloseAnalytics == screen = "analytics" /\ Navigate("setup")

\* lines 302-304, 336, 479: Submit on the exam screen
OpenReview == screen = "exam" /\ session.present /\ Navigate("review")

\* lines 556, 564: Return to Exam on the review screen
ReturnToExam == screen = "review" /\ session.present /\ Navigate("exam")

\* lines 306-317, 565: Final Submit on the review screen
FinalizeSubmit ==
    /\ screen = "review"
    /\ session.present
    /\ result' = TRUE
    /\ screen' = "results"
    /\ effects' = <<>>
    /\ UNCHANGED <<stored, resumeGen, session, abortRef, runs, sessionsMade>>
    /\ UNCHANGED <<allocVars, planVars, callVars, routeVars, scoreVars, offlineVars, uiVars>>

\* line 661: Change Core on the results screen
ChangeCore == screen = "results" /\ session.present /\ result /\ Navigate("setup")

\* lines 77-103: the page is loaded again; the runs of the old page are gone
Reload ==
    /\ runs # [r \in 1..MaxRuns |-> IdleRun]
    /\ runs' = [r \in 1..MaxRuns |-> IdleRun]
    /\ abortRef' = 0
    /\ resumeGen' = stored
    /\ screen' = IF stored.present /\ screen = "generating" THEN "setup" ELSE screen
    /\ effects' = <<>>
    /\ UNCHANGED <<stored, session, result, sessionsMade>>
    /\ UNCHANGED <<allocVars, planVars, callVars, routeVars, scoreVars, offlineVars, uiVars>>

(***************************************************************************)
(* runGeneration past its loop (lines 214-233), applied to the lists of    *)
(* items a route without length validation can have delivered.             *)
(***************************************************************************)
\* normalizeQuestions(...).length: an item of no known type is left out
RecognizedCount(its) == Cardinality({ k \in DOMAIN its : its[k].type \in QuestionTypes })

\* lists of single-choice items for the plan, one item of another type or
\* of no known type, up to MaxExtra items short or long
CollectedLists ==
    { [k \in 1..n |-> [generationId |-> 1, planIndex |-> k - 1,
                       type |-> IF k = p THEN t ELSE "single"]] :
        n \in (EXAM_QUESTION_COUNT - MaxExtra)..(EXAM_QUESTION_COUNT + MaxExtra),
        p \in 1..(EXAM_QUESTION_COUNT + MaxExtra),
        t \in QuestionTypes \cup {"unknown"} }

AssembleInit ==
    /\ \E its \in CollectedLists :
          LET g == [present |-> TRUE, sessionId |-> 1, core |-> InitialCore,
                    plan |-> SamplePlan(InitialCore), rawItems |-> its,
                    nextIndex |-> EXAM_QUESTION_COUNT, batchSize |-> BATCH_SIZE,
                    lastError |-> Undefined]
          IN  /\ stored = g
              /\ resumeGen = g
              /\ runs = [r \in 1..MaxRuns |->
                           IF r = 1
                           THEN [pc |-> "normalize", g |-> Captured(g), items |-> its,
                                 nextIndex |-> EXAM_QUESTION_COUNT, i |-> EXAM_QUESTION_COUNT,
                                 aborted |-> FALSE]
                           ELSE IdleRun]
    /\ screen = "generating"
    /\ session = NoSession
    /\ result = FALSE
    /\ abortRef = 1
    /\ sessionsMade = 1
    /\ effects = <<>>

\* lines 214-252: the loop of run r is over
AssembleSession ==
    \E r \in DOMAIN runs :
        /\ runs[r].pc = "normalize"
        /\ LoopHead(Now, r, runs[r].g, runs[r].items, runs[r].nextIndex, runs[r].i)
        /\ UNCHANGED sessionsMade
        /\ UNCHANGED <<allocVars, planVars, callVars, routeVars, scoreVars, offlineVars, uiVars>>

(***************************************************************************)
(* The generate route: handler, enforceRateLimit, cacheGet and cacheSet.   *)
(* Time is Date.now() in milliseconds.  sha256 over JSON.stringify is      *)
(* taken to be free of collisions: a cache key is the record it hashes.    *)
(***************************************************************************)
CACHE_TTL_MS == 15 * 60 * 1000
RATE_WINDOW_MS == 60 * 1000
RATE_LIMIT == 30
MAX_REQUEST_ITEMS == 20

Ips == { "ip1", "ip2" }

GoodItem == [objectiveId |-> TRUE, objectiveTitle |-> TRUE, type |-> "single"]
NoIdItem == [GoodItem EXCEPT !.objectiveId = FALSE]
NoTitleItem == [GoodItem EXCEPT !.objectiveTitle = FALSE]
NoTypeItem == [GoodItem EXCEPT !.type = ""]

\* the bodies' items: acceptable lists, and lists the handler is to reject
GoodItemLists == { <<GoodItem>> }
LongestItemList == [k \in 1..MAX_REQUEST_ITEMS |-> GoodItem]
BadItemLists ==
    { <<>>, <<NoIdItem>>, <<NoTitleItem>>, <<NoTypeItem>>, <<GoodItem, NoTypeItem>>,
      [k \in 1..(MAX_REQUEST_ITEMS + 1) |-> GoodItem] }

Request(m, ip, c, its, d, b) ==
    [method |-> m, ip |-> ip, core |-> c, items |-> its, difficulty |-> d,
     generationId |-> "g1", batchIndex |-> b]

\* the requests sent: well-formed ones, and ones that differ in one respect
\* every kind of request from the first client, one kind from the others
Requests ==
    { Request("POST", "ip1", InitialCore, its, "easy", b) :
        its \in GoodItemLists, b \in 0..(MaxBatchIndex - 1) }
    \cup { Request("POST", ip, InitialCore, <<GoodItem>>, "easy", 0) : ip \in Ips }
    \cup { Request("POST", "ip1", InitialCore, LongestItemList, "bogus", 0) }
    \cup { Request("POST", "ip1", InitialCore, its, "easy", 0) : its \in BadItemLists }
    \cup { Request("GET", "ip1", InitialCore, <<GoodItem>>, "easy", 0) }
    \cup { Request("POST", "ip1", "", <<GoodItem>>, "easy", 0) }

\* lines 258-259: const diff
Diff(raw) == IF raw \in {"easy", "medium", "hard"} THEN raw ELSE "medium"

\* lines 273-281: the value hashed into cacheKey
CacheKey(req) ==
    [core |-> req.core, items |-> req.items, diff |-> Diff(req.difficulty),
     generationId |-> req.generationId, batchIndex |-> req.batchIndex]

CacheKeys == { CacheKey(req) : req \in Requests }

NoEntry == [present |-> FALSE, value |-> <<>>, expiresAt |-> 0]
NoRate == [present |-> FALSE, resetAt |-> 0, count |-> 0]
Miss == [hit |-> FALSE, value |-> <<>>]

\* mutant: an entry never expires
CacheGetForever(c, key, t) ==
    IF ~c[key].present
    THEN [found |-> Miss, cache |-> c]
    ELSE [found |-> [hit |-> TRUE, value |-> c[key].value], cache |-> c]

\* lines 41-49: cacheGet, as the value returned and the map left behind
CacheGet(c, key, t) ==
    IF ~c[key].present
    THEN [found |-> Miss, cache |-> c]
    ELSE IF t > c[key].expiresAt
    THEN [found |-> Miss, cache |-> [c EXCEPT ![key] = NoEntry]]
    ELSE [found |-> [hit |-> TRUE, value |-> c[key].value], cache |-> c]

\* lines 51-53: cacheSet
CacheSet(c, key, value, t) ==
    [c EXCEPT ![key] = [present |-> TRUE, value |-> value, expiresAt |-> t + CACHE_TTL_MS]]

\* mutant: the limit is compared with > rather than >=
EnforceRateLimitOneMore(rt, ip, t) ==
    IF ~rt[ip].present \/ t > rt[ip].resetAt
    THEN [ok |-> TRUE,
          rate |-> [rt EXCEPT ![ip] = [present |-> TRUE, resetAt |-> t + RATE_WINDOW_MS, count |-> 1]]]
    ELSE IF rt[ip].count > RATE_LIMIT
    THEN [ok |-> FALSE, rate |-> rt]
    ELSE [ok |-> TRUE, rate |-> [rt EXCEPT ![ip].count = @ + 1]]

\* lines 64-93: enforceRateLimit, as the verdict and the map left behind
EnforceRateLimit(rt, ip, t) ==
    IF ~rt[ip].present \/ t > rt[ip].resetAt
    THEN [ok |-> TRUE,
          rate |-> [rt EXCEPT ![ip] = [present |-> TRUE, resetAt |-> t + RATE_WINDOW_MS, count |-> 1]]]
    ELSE IF rt[ip].count >= RATE_LIMIT
    THEN [ok |-> FALSE, rate |-> rt]
    ELSE [ok |-> TRUE, rate |-> [rt EXCEPT ![ip].count = @ + 1]]

\* lines 268-271: the message of the first plan item found invalid
PlanItemError(its) ==
    LET bad == { k \in DOMAIN its :
                   ~its[k].objectiveId \/ ~its[k].objectiveTitle \/ its[k].type = "" }
        k == CHOOSE x \in bad : \A y \in bad : x <= y
    IN  IF bad = {} THEN NoError
        ELSE IF ~its[k].objectiveId \/ ~its[k].objectiveTitle
        THEN Msg("Invalid plan item (missing objective).")
        ELSE Msg("Invalid plan item (missing type).")

\* the batches callOpenAI can return for these plan items
GeneratedBatches(its) ==
    { [k \in DOMAIN its |-> [variant |-> v, type |-> its[k].type]] : v \in 1..MaxVariants }

\* the errors callOpenAI can throw
BackendErrors == { Msg("OpenAI error"), Msg("Model returned invalid JSON after retries") }

Response(req, status, its, cached, error) ==
    [req |-> req, status |-> status, items |-> its, cached |-> cached, error |-> error]

NoRequest == Request("", "", "", <<>>, "", 0)
NoResponse == Response(NoRequest, 0, <<>>, FALSE, NoError)

\* mutant: the lookup is skipped
CacheLookupSkipped(c, key, t) == [found |-> Miss, cache |-> c]

\* line 283: const cached = cacheGet(cacheKey)
CacheLookup(c, key, t) == CacheGet(c, key, t)

\* lines 263-271: the response to a request the handler rejects, if it does
Rejection(req) ==
    IF req.core = "" THEN Response(req, 400, <<>>, FALSE, Msg("Missing core."))
    ELSE IF Len(req.items) = 0 THEN Response(req, 400, <<>>, FALSE, Msg("No items provided."))
    ELSE IF Len(req.items) > MAX_REQUEST_ITEMS
    THEN Response(req, 400, <<>>, FALSE, Msg("Too many items in one request; batch <= 20."))
    ELSE IF PlanItemError(req.items) # NoError
    THEN Response(req, 500, <<>>, FALSE, PlanItemError(req.items))
    ELSE NoResponse

\* the request is received and awaits callOpenAI: nothing is sent yet
Awaiting(req) == Response(req, 0, <<>>, FALSE, NoError)

\* lines 246-289: handler(req, res) up to its response or to the await
HandlerReceive ==
    \E req \in Requests :
        IF req.method # "POST"
        THEN /\ response' = Response(req, 405, <<>>, FALSE, Msg("Method Not Allowed"))
             /\ UNCHANGED <<cache, rate, inFlight>>
        ELSE LET rl == EnforceRateLimit(rate, req.ip, clock)
                 got == CacheLookup(cache, CacheKey(req), clock)
             IN  /\ rate' = rl.rate
                 /\ IF ~rl.ok
                    THEN /\ response' = Response(req, 429, <<>>, FALSE,
                                                 Msg("Rate limit exceeded. Please wait and retry."))
                         /\ UNCHANGED <<cache, inFlight>>
                    ELSE IF Rejection(req) # NoResponse
                    THEN /\ response' = Rejection(req)
                         /\ UNCHANGED <<cache, inFlight>>
                    ELSE IF got.found.hit
                    THEN /\ response' = Response(req, 200, got.found.value, TRUE, NoError)
                         /\ cache' = got.cache
                         /\ UNCHANGED inFlight
                    ELSE /\ Len(inFlight) < MaxInFlight
                         /\ response' = Awaiting(req)
                         /\ cache' = got.cache
                         /\ inFlight' = Append(inFlight, req)

RemoveAt(s, k) == [j \in 1..(Len(s) - 1) |-> IF j < k THEN s[j] ELSE s[j + 1]]

\* lines 289-292: callOpenAI returns a batch
HandlerBackendReturns ==
    \E k \in DOMAIN inFlight :
        \E generated \in GeneratedBatches(inFlight[k].items) :
            /\ cache' = CacheSet(cache, CacheKey(inFlight[k]), generated, clock)
            /\ response' = Response(inFlight[k], 200, generated, FALSE, NoError)
            /\ inFlight' = RemoveAt(inFlight, k)
            /\ UNCHANGED rate

\* mutant: the catch branch stores what it has, an empty batch
HandlerBackendThrowsAndStores ==
    \E k \in DOMAIN inFlight :
        \E err \in BackendErrors :
            /\ cache' = CacheSet(cache, CacheKey(inFlight[k]), <<>>, clock)
            /\ response' = Response(inFlight[k], 500, <<>>, FALSE, err)
            /\ inFlight' = RemoveAt(inFlight, k)
            /\ UNCHANGED rate

\* lines 293-295: callOpenAI throws
HandlerBackendThrows ==
    \E k \in DOMAIN inFlight :
        \E err \in BackendErrors :
            /\ response' = Response(inFlight[k], 500, <<>>, FALSE, err)
            /\ inFlight' = RemoveAt(inFlight, k)
            /\ UNCHANGED <<cache, rate>>

\* the steps by which time passes between two events
TickSteps == { 1, RATE_WINDOW_MS, CACHE_TTL_MS }

\* the window of a client whose RATE_LIMIT - 1 requests at time 0 were all
\* admitted and counted
NearlyExhausted == [present |-> TRUE, resetAt |-> RATE_WINDOW_MS, count |-> RATE_LIMIT - 1]

\* the request whose batch a warm instance holds
WarmRequest == Request("POST", "ip1", InitialCore, <<GoodItem>>, "easy", 0)

\* an entry stored CACHE_TTL_MS ago, in its last moment
LastMoment ==
    [present |-> TRUE, expiresAt |-> 0,
     value |-> CHOOSE b \in GeneratedBatches(WarmRequest.items) : b[1].variant = 1]

\* the instance is cold, or it is warm: it has served the first client for
\* a while, whose window has one request to go and whose oldest batch in the
\* cache is about to expire
RouteInit ==
    /\ clock = 0
    /\ \E warm \in BOOLEAN :
          /\ cache = [key \in CacheKeys |->
                        IF warm /\ key = CacheKey(WarmRequest) THEN LastMoment ELSE NoEntry]
          /\ rate = [ip \in Ips |->
                       IF warm /\ ip = "ip1" THEN NearlyExhausted ELSE NoRate]
    /\ inFlight = <<>>
    /\ response = NoResponse
    /\ ticks = 0
    /\ handled = 0

RouteIdle ==
    /\ clock = 0
    /\ cache = <<>>
    /\ rate = <<>>
    /\ inFlight = <<>>
    /\ response = NoResponse
    /\ ticks = 0
    /\ handled = 0

Receive ==
    /\ handled < MaxRequests
    /\ HandlerReceive
    /\ handled' = handled + 1
    /\ UNCHANGED <<clock, ticks>>
    /\ UNCHANGED <<allocVars, planVars, callVars, appVars, scoreVars, offlineVars, uiVars>>

BackendReturns ==
    /\ HandlerBackendReturns
    /\ UNCHANGED <<clock, ticks, handled>>
    /\ UNCHANGED <<allocVars, planVars, callVars, appVars, scoreVars, offlineVars, uiVars>>

BackendThrows ==
    /\ HandlerBackendThrows
    /\ UNCHANGED <<clock, ticks, handled>>
    /\ UNCHANGED <<allocVars, planVars, callVars, appVars, scoreVars, offlineVars, uiVars>>

\* Date.now() advances
Tick ==
    /\ ticks < MaxTicks
    /\ \E d \in TickSteps : clock' = clock + d
    /\ ticks' = ticks + 1
    /\ response' = NoResponse
    /\ UNCHANGED <<cache, rate, inFlight, handled>>
    /\ UNCHANGED <<allocVars, planVars, callVars, appVars, scoreVars, offlineVars, uiVars>>

(***************************************************************************)
(* normalizeQuestions and scoreExam.  A text is a number (EmptyText is the *)
(* empty string), the option id `o${i + 1}` is the number i + 1 and the    *)
(* question id `${sessionId}-q-${seq}` is seq.                             *)
(***************************************************************************)
EmptyText == 0
\* the text "undefined", which a template literal makes of undefined
UndefinedText == 4
\* texts are 0 .. TextBase - 1
TextBase == 5

\* names that every object inherits from Object.prototype
InheritedKeys == {"constructor"}
Domains == {"1.0", "2.0"} \cup InheritedKeys

RawItem(t, dom) ==
    [type |-> t, domain |-> dom, options |-> <<>>, correctIndices |-> <<>>,
     orderItems |-> <<>>, correctOrder |-> <<>>,
     left |-> <<>>, right |-> <<>>, correctPairs |-> <<>>]

RawChoice(t, n, ci) ==
    [RawItem(t, "1.0") EXCEPT !.options = [i \in 1..n |-> i], !.correctIndices = ci]

RawOrder(texts, co) ==
    [RawItem("pbq-order", "1.0") EXCEPT !.orderItems = texts, !.correctOrder = co]

RawMatch(l, r, cp) ==
    [RawItem("pbq-match", "1.0") EXCEPT !.left = l, !.right = r, !.correctPairs = cp]

\* index lists of length 1..MaxCorrect, one index past the end included
IndexLists(n) == UNION { [1..len -> 0..n] : len \in 1..MaxCorrect }

RawChoices == { RawChoice(t, NumOptions, ci) : t \in {"single", "multi"}, ci \in IndexLists(NumOptions) }

\* step lists: all texts different, and two steps with the same text
StepLists == { <<1, 2, 3>>, <<1, 1, 2>> }

RawOrders == { RawOrder(texts, co) : texts \in StepLists, co \in [1..3 -> 0..3] }

\* indices of a pair: two that hit and one past the end of three texts
MatchIndices == {0, 1, 3}
IndexPairs == [leftIndex : MatchIndices, rightIndex : MatchIndices]
PairLists == UNION { [1..len -> IndexPairs] : len \in 1..MaxCorrect }

RawMatches == { RawMatch(<<1, 2, 3>>, <<1, 2, 3>>, cp) : cp \in PairLists }

\* lines 127, 136: indices.map((i) => values[i]).filter(Boolean)
RECURSIVE Picked(_, _)
Picked(indices, values) ==
    IF indices = <<>> THEN <<>>
    ELSE LET i == Head(indices)
             rest == Picked(Tail(indices), values)
         IN  IF i >= 0 /\ i < Len(values) /\ values[i + 1] # EmptyText
             THEN <<values[i + 1]>> \o rest
             ELSE rest

\* `${l}=>${r}`; the texts of the model hold no "=>" of their own
Encode(l, r) == l * TextBase + r

\* lines 146, 147: `${values[i]?.text}`
TextAt(values, i) ==
    IF i >= 0 /\ i < Len(values) THEN values[i + 1] ELSE UndefinedText

\* line 147: x.startsWith("undefined")
StartsWithUndefined(x) == x \div TextBase = UndefinedText

\* lines 145-147: pairs.map(...).filter(...)
RECURSIVE Paired(_, _, _)
Paired(pairs, left, right) ==
    IF pairs = <<>> THEN <<>>
    ELSE LET p == Head(pairs)
             x == Encode(TextAt(left, p.leftIndex), TextAt(right, p.rightIndex))
             rest == Paired(Tail(pairs), left, right)
         IN  IF StartsWithUndefined(x) THEN rest ELSE <<x>> \o rest

\* lines 113-165: the question made from raw item it, the seq-th of the list
NormalizeItem(it, seq) ==
    LET q == [id |-> seq, type |-> it.type, domain |-> it.domain,
              options |-> <<>>, correct |-> <<>>, left |-> <<>>, right |-> <<>>]
    IN  IF it.type \in {"single", "multi"}
        THEN [q EXCEPT !.options = it.options,
                       !.correct = Picked(it.correctIndices, it.options)]
        ELSE IF it.type = "pbq-order"
        THEN [q EXCEPT !.correct = Picked(it.correctOrder, it.orderItems)]
        ELSE [q EXCEPT !.left = it.left, !.right = it.right,
                       !.correct = Paired(it.correctPairs, it.left, it.right)]

\* lines 109-168: normalizeQuestions; an item of no known type is left out
normalizeQuestions(its) ==
    LET made == [k \in DOMAIN its |-> NormalizeItem(its[k], k)]
    IN  SelectSeq(made, LAMBDA q : q.type \in QuestionTypes)

\* lines 884-889: setEq
setEq(a, b) ==
    /\ Len(a) = Len(b)
    /\ LET sa == SortSeq(a, LAMBDA x, y : x < y)
           sb == SortSeq(b, LAMBDA x, y : x < y)
       IN  \A i \in DOMAIN sa : sa[i] = sb[i]

\* mutant: the steps are compared in any order
OrderEqUnordered(order, correct) == setEq(order, correct)

\* line 903: order.length === q.correct.length && order.every(...)
OrderEq(order, correct) ==
    /\ Len(order) = Len(correct)
    /\ \A i \in DOMAIN order : order[i] = correct[i]

NotGiven == [given |-> FALSE, value |-> <<>>]
Given(v) == [given |-> TRUE, value |-> v]

\* lines 900-910: let ok, for question q with answers[q.id] = a and the
\* order or pairs of pbqState[q.id] = p
QuestionOk(q, a, p) ==
    IF q.type = "pbq-order" THEN p.given /\ OrderEq(p.value, q.correct)
    ELSE IF q.type = "pbq-match" THEN p.given /\ setEq(p.value, q.correct)
    ELSE setEq(IF a.given THEN a.value ELSE <<>>, q.correct)

(***************************************************************************)
(* The percentage of scoreExam is computed in IEEE doubles.  A positive    *)
(* double has MantissaBits binary digits, the first of them 1.  It is kept *)
(* as its leading digit followed by MantissaLimbs digits of base LimbBase, *)
(* and the exponent e of its last binary digit: its value is the number    *)
(* written by limbs, times 2^e.                                            *)
(***************************************************************************)
MantissaBits == 53
LimbBits == 13
LimbBase == 2 ^ LimbBits
MantissaLimbs == (MantissaBits - 1) \div LimbBits

\* the number of binary digits of n
RECURSIVE BitLength(_)
BitLength(n) == IF n = 0 THEN 0 ELSE 1 + BitLength(n \div 2)

\* limbs plus one
RECURSIVE Increment(_)
Increment(l) ==
    IF Len(l) = 1 THEN <<l[1] + 1>>
    ELSE IF l[Len(l)] + 1 < LimbBase THEN [l EXCEPT ![Len(l)] = l[Len(l)] + 1]
    ELSE Append(Increment(SubSeq(l, 1, Len(l) - 1)), 0)

\* the double of limbs l, moved one step up when up holds
Rounded(l, e, up) ==
    LET r == IF up THEN Increment(l) ELSE l
    IN  IF r[1] = 2
        THEN [limbs |-> [r EXCEPT ![1] = 1], e |-> e + 1]
        ELSE [limbs |-> r, e |-> e]

\* long division of r * LimbBase^n by t: the next n limbs and the remainder
RECURSIVE Quotient(_, _, _)
Quotient(r, t, n) ==
    IF n = 0 THEN [limbs |-> <<>>, rem |-> r]
    ELSE LET rest == Quotient((r * LimbBase) % t, t, n - 1)
         IN  [limbs |-> <<(r * LimbBase) \div t>> \o rest.limbs, rem |-> rest.rem]

\* the number of doublings that take c to t or more
RECURSIVE Shift(_, _)
Shift(c, t) == IF c >= t THEN 0 ELSE 1 + Shift(2 * c, t)

\* line 920: correctCount / total for 0 < c <= t, rounded to nearest, ties
\* to even
Divide(c, t) ==
    LET k == Shift(c, t)
        q == Quotient(c * (2 ^ k) - t, t, MantissaLimbs)
        l == <<1>> \o q.limbs
    IN  Rounded(l, 0 - (k + MantissaBits - 1),
                2 * q.rem > t \/ (2 * q.rem = t /\ (l[Len(l)] % 2) = 1))

\* the limbs of l times k, plus carry; the first limb takes what is left
RECURSIVE TimesLimbs(_, _, _)
TimesLimbs(l, k, carry) ==
    LET v == l[Len(l)] * k + carry
    IN  IF Len(l) = 1 THEN <<v>>
        ELSE Append(TimesLimbs(SubSeq(l, 1, Len(l) - 1), k, v \div LimbBase), v % LimbBase)

\* limbs p, whose first limb has 1 + s binary digits with s < LimbBits, moved
\* s binary digits to the right
ShiftRight(p, s) ==
    [i \in DOMAIN p |->
        (IF i = 1 THEN 0 ELSE (p[i - 1] % (2 ^ s)) * (2 ^ (LimbBits - s))) + (p[i] \div (2 ^ s))]

\* line 920: x * k for a whole k below LimbBase, rounded to nearest, ties to
\* even
Times(x, k) ==
    LET p == TimesLimbs(x.limbs, k, 0)
        s == BitLength(p[1]) - 1
        kept == ShiftRight(p, s)
        dropped == p[Len(p)] % (2 ^ s)
        guard == s > 0 /\ dropped \div (2 ^ (s - 1)) = 1
        sticky == s > 0 /\ dropped % (2 ^ (s - 1)) # 0
    IN  Rounded(kept, x.e + s, guard /\ (sticky \/ (kept[Len(kept)] % 2) = 1))

\* the two leading limbs of x as one number, and the exponent of its last digit
Leading(x) == x.limbs[1] * LimbBase + x.limbs[2]
LeadingExp(x) == x.e + (MantissaLimbs - 1) * LimbBits

\* mutant: the fraction is cut off
MathTrunc(x) == Leading(x) \div (2 ^ (0 - LeadingExp(x)))

\* line 920: Math.round of a double below LimbBase, halves go up
MathRound(x) ==
    LET s == 0 - LeadingExp(x)
    IN  (Leading(x) \div (2 ^ s)) + ((Leading(x) \div (2 ^ (s - 1))) % 2)

\* line 920: Math.round((correctCount / total) * 1000); percent is this
\* number divided by 10, and is kept here as the number of tenths
Percent(c, t) ==
    IF t = 0 THEN NaN
    ELSE IF c = 0 THEN Num(0)
    ELSE Num(MathRound(Times(Divide(c, t), 1000)))

\* lines 896-898, 912-915: domainAgg when the loop has ended.  The lookup
\* domainAgg[q.domain] finds inherited members too: they are truthy, so no
\* entry is made for such a domain and its counters are written to the
\* inherited object.  Every other domain gets an entry at its first question
\* and is counted at each of its questions.
DomainAgg(qs, oks) ==
    LET own == { qs[k].domain : k \in DOMAIN qs } \ InheritedKeys
    IN  [dom \in own |->
           [correct |-> Cardinality({ k \in DOMAIN qs : qs[k].domain = dom /\ oks[k] }),
            total |-> Cardinality({ k \in DOMAIN qs : qs[k].domain = dom })]]

\* lines 891-925: scoreExam; byDomain is a function of the domain
scoreExam(qs, ans, pbq) ==
    LET oks == [k \in DOMAIN qs |-> QuestionOk(qs[k], ans[k], pbq[k])]
        scored == [k \in DOMAIN qs |-> [questionId |-> qs[k].id, isCorrect |-> oks[k]]]
        correctCount == Cardinality({ k \in DOMAIN scored : scored[k].isCorrect })
    IN  [percent |-> Percent(correctCount, Len(qs)),
         correctCount |-> correctCount,
         total |-> Len(qs),
         byDomain |-> DomainAgg(qs, oks),
         scored |-> scored]

NoResult ==
    [percent |-> NaN, correctCount |-> 0, total |-> 0,
     byDomain |-> [dom \in {} |-> 0], scored |-> <<>>]

\* sequences of different members of s, at most n long
DistinctSeqs(s, n) ==
    { t \in UNION { [1..len -> s] : len \in 0..n } :
        \A i, j \in DOMAIN t : i # j => t[i] # t[j] }

\* lines 781-785: the pairs setPair can have stored, one for a left text
PairSubmissions(q) ==
    LET lefts == { q.left[i] : i \in DOMAIN q.left }
        rights == { q.right[i] : i \in DOMAIN q.right } \cup { EmptyText }
        all == { Encode(l, r) : l \in lefts, r \in rights }
    IN  { t \in DistinctSeqs(all, MaxCorrect + 1) :
            \A i, j \in DOMAIN t : i # j => t[i] \div TextBase # t[j] \div TextBase }

\* what can be submitted for question q: option ids, a list of steps, pairs
Submissions(q) ==
    IF q.type = "pbq-order"
    THEN { NotGiven } \cup { Given(o) : o \in [1..3 -> 1..3] \cup { <<>>, <<1, 2>> } }
    ELSE IF q.type = "pbq-match"
    THEN { NotGiven } \cup { Given(p) : p \in PairSubmissions(q) }
    ELSE { NotGiven } \cup { Given(a) : a \in DistinctSeqs(1..NumOptions, MaxCorrect + 1) }

\* nothing, the canonical answer, and an empty answer
ShortSubmissions(q) == { NotGiven, Given(q.correct), Given(<<>>) }

\* the answers to a session: any to one question, short ones to two, and to
\* a longer session the canonical answers to its first c questions
AnswerSheets(qs) ==
    IF Len(qs) = 1 THEN { <<a>> : a \in Submissions(qs[1]) }
    ELSE IF Len(qs) = 2
    THEN { <<a, b>> : a \in ShortSubmissions(qs[1]), b \in ShortSubmissions(qs[2]) }
    ELSE { [k \in DOMAIN qs |-> IF k <= c THEN Given(qs[k].correct) ELSE NotGiven] :
             c \in 0..Len(qs) }

SampleItems ==
    { [RawChoice("single", NumOptions, <<0>>) EXCEPT !.domain = dom] : dom \in Domains }
    \cup { [RawOrder(<<1, 2, 3>>, <<0, 1, 2>>) EXCEPT !.domain = dom] : dom \in Domains }

\* sessions of every length up to the length of an exam
LongItemLists ==
    { [k \in 1..n |-> IF k % 2 = 1
                      THEN RawChoice("multi", NumOptions, <<0, 1>>)
                      ELSE [RawOrder(<<1, 2, 3>>, <<2, 1, 0>>) EXCEPT !.domain = "2.0"]] :
        n \in 3..EXAM_QUESTION_COUNT }

\* an item whose type is none of the four
UnknownItem == RawItem("essay", "1.0")

QuizItemLists ==
    { <<it>> : it \in RawChoices \cup RawOrders \cup RawMatches }
    \cup { <<a, b>> : a, b \in SampleItems }
    \cup { <<a, UnknownItem>> : a \in SampleItems }
    \cup { <<UnknownItem, a>> : a \in SampleItems }
    \cup LongItemLists

ScoreInit ==
    /\ quizItems \in QuizItemLists
    /\ questions = <<>>
    /\ answers = <<>>
    /\ pbqState = <<>>
    /\ examResult = NoResult
    /\ scorePc = "normalize"

ScoreIdle ==
    /\ quizItems = <<>>
    /\ questions = <<>>
    /\ answers = <<>>
    /\ pbqState = <<>>
    /\ examResult = NoResult
    /\ scorePc = "idle"

\* normalizeQuestions(core, sessionId, items)
Normalize ==
    /\ scorePc = "normalize"
    /\ questions' = normalizeQuestions(quizItems)
    /\ scorePc' = "score"
    /\ UNCHANGED <<quizItems, answers, pbqState, examResult>>
    /\ UNCHANGED <<allocVars, planVars, callVars, appVars, routeVars, offlineVars, uiVars>>

\* scoreExam(session, answers, pbqState)
Score ==
    /\ scorePc = "score"
    /\ \E sheet \in AnswerSheets(questions) :
          /\ answers' = [k \in DOMAIN questions |->
                           IF questions[k].type \in PbqTypes THEN NotGiven ELSE sheet[k]]
          /\ pbqState' = [k \in DOMAIN questions |->
                            IF questions[k].type \in PbqTypes THEN sheet[k] ELSE NotGiven]
    /\ examResult' = scoreExam(questions, answers', pbqState')
    /\ scorePc' = "done"
    /\ UNCHANGED <<quizItems, questions>>
    /\ UNCHANGED <<allocVars, planVars, callVars, appVars, routeVars, offlineVars, uiVars>>

(***************************************************************************)
(* buildOfflineQuestions and its seeded generator.  The generator of the   *)
(* code computes on 32 binary digits; the model computes in the same way   *)
(* on RngBits digits, with the low digits of the constants of the code.    *)
(* A string is the list of its character codes, a text is a number, and    *)
(* the id `${sessionId}-offline-${counter}` is kept as its two parts.      *)
(***************************************************************************)
RngMod == 2 ^ RngBits

\* the low 16 binary digits of 2166136261, 16777619 and 0x6D2B79F5
FnvOffsetBasis == 40389
FnvPrime == 403
MulberryStep == 31221

\* a ^ b and a | b, digit by digit
RECURSIVE Xor(_, _)
Xor(a, b) ==
    IF a = 0 THEN b ELSE IF b = 0 THEN a
    ELSE 2 * Xor(a \div 2, b \div 2) + ((a + b) % 2)

RECURSIVE Or(_, _)
Or(a, b) ==
    IF a = 0 THEN b ELSE IF b = 0 THEN a
    ELSE 2 * Or(a \div 2, b \div 2) + (IF a % 2 = 1 \/ b % 2 = 1 THEN 1 ELSE 0)

\* Math.imul(a, b), and x >>> n
Imul(a, b) == (a * b) % RngMod
Ushr(x, n) == x \div (2 ^ n)

\* lines 9-12: the loop of hashStringToSeed
RECURSIVE FnvFold(_, _)
FnvFold(h, s) ==
    IF s = <<>> THEN h
    ELSE FnvFold(Imul(Xor(h, Head(s)) % RngMod, FnvPrime % RngMod), Tail(s))

\* lines 7-14: hashStringToSeed
hashStringToSeed(s) == FnvFold(FnvOffsetBasis % RngMod, s)

\* line 20: t += 0x6D2B79F5
RngAdvance(t) == (t + MulberryStep) % RngMod

\* line 22: x = Math.imul(x ^ (x >>> 15), x | 1)
RngFirst(t1) == Imul(Xor(t1, Ushr(t1, 15)), Or(t1, 1))

\* line 23: x ^= x + Math.imul(x ^ (x >>> 7), x | 61)
RngSecond(x1) ==
    Xor(x1, (x1 + Imul(Xor(x1, Ushr(x1, 7)), Or(x1, 61) % RngMod)) % RngMod)

\* line 24: (x ^ (x >>> 14)) >>> 0
RngLast(x2) == Xor(x2, Ushr(x2, 14))

\* lines 19-24: next() of mulberry32 in state t; v stands for v / RngMod
RngNext(t) ==
    [v |-> RngLast(RngSecond(RngFirst(RngAdvance(t)))), t |-> RngAdvance(t)]

\* Math.floor(rng.next() * n)
Below(r, n) == (r.v * n) \div RngMod

\* line 30: the member of arr that the draw r picks
PickAt(r, arr) == [v |-> arr[Below(r, Len(arr)) + 1], t |-> r.t]

\* lines 29-31: pickOne
pickOne(t, arr) == PickAt(RngNext(t), arr)

\* mutant: a[i] is overwritten by a[j] and a[j] is left as it is
Overwritten(a, i, j) == [a EXCEPT ![i] = a[j]]

\* line 37: [a[i], a[j]] = [a[j], a[i]]
Swapped(a, i, j) == [a EXCEPT ![i] = a[j], ![j] = a[i]]

\* lines 35-38: the loop of shuffle, at index i (counted from 0); r is the
\* draw of the iteration
RECURSIVE ShuffleFrom(_, _, _)
RECURSIVE ShuffleStep(_, _, _)
ShuffleStep(r, a, i) ==
    ShuffleFrom(r.t, Swapped(a, i + 1, Below(r, i + 1) + 1), i - 1)

ShuffleFrom(t, a, i) ==
    IF i <= 0 THEN [v |-> a, t |-> t]
    ELSE ShuffleStep(RngNext(t), a, i)

\* lines 33-40: shuffle
shuffle(t, arr) == ShuffleFrom(t, arr, Len(arr) - 1)

\* line 44: s.slice(0, k) of the shuffled list s
TakeFirst(s, k) == [v |-> SubSeq(s.v, 1, k), t |-> s.t]

\* lines 42-45: takeDistinct
takeDistinct(t, arr, n) ==
    IF n <= 0 THEN [v |-> <<>>, t |-> t]
    ELSE TakeFirst(shuffle(t, arr), Min(n, Len(arr)))

\* lines 60-200: the templates of a core, the common ones first
pbqTemplates(c) ==
    << [kind |-> "order", items |-> <<31, 32, 33>>, pairs |-> <<>>],
       IF c = "220-1201"
       THEN [kind |-> "match", items |-> <<>>, pairs |-> << <<1, 2>>, <<2, 3>>, <<3, 1>> >>]
       ELSE [kind |-> "match", items |-> <<>>, pairs |-> << <<1, 1>>, <<2, 2>> >>] >>

\* lines 256-268: allBulletPool
allBulletPool(c) ==
    IF c = "220-1201" THEN <<11, 12, 13, 14, 15>> ELSE <<11, 12, 13, 16>>

\* the bullets and the title of an objective of the catalogue
BulletsOf(o) ==
    IF o = 1 THEN <<11, 12>> ELSE IF o = 2 THEN <<13>>
    ELSE IF o = 3 THEN <<>> ELSE <<EmptyText, 12, 12>>
TitleOf(o) == 20 + o

OfflinePlanItems ==
    { [type |-> ty, objectiveId |-> o, objectiveBullets |-> BulletsOf(o)] :
        ty \in QuestionTypes, o \in 1..4 }

\* lines 271, 304: the bullets sanitized, the empty ones dropped
UsableBullets(p) == SelectSeq(p.objectiveBullets, LAMBDA x : x # EmptyText)

OfflineQuestion(ty, sid, n, p) ==
    [id |-> <<sid, n>>, type |-> ty, objective |-> p.objectiveId,
     options |-> <<>>, correct |-> <<>>, left |-> <<>>, right |-> <<>>, focus |-> <<>>]

\* the places of seq whose member is in set
Places(seq, set) == { i \in DOMAIN seq : seq[i] \in set }

\* the places in set as a list in rising order
RECURSIVE Rising(_)
Rising(set) ==
    IF set = {} THEN <<>>
    ELSE LET m == CHOOSE x \in set : \A y \in set : x <= y
         IN  <<m>> \o Rising(set \ {m})

\* the right sides of pairs
RightsOf(pairs) == [i \in DOMAIN pairs |-> pairs[i][2]]

\* mutant: the canonical pairs follow the two columns as displayed
MatchQuestionAsDisplayed(sid, n, p, pairs, right) ==
    [v |-> [OfflineQuestion("pbq-match", sid, n, p) EXCEPT
              !.left = [i \in DOMAIN pairs.v |-> pairs.v[i][1]],
              !.right = right.v,
              !.correct = [i \in DOMAIN pairs.v |-> Encode(pairs.v[i][1], right.v[i])]],
     t |-> right.t]

\* lines 226-253: the match question of the shuffled pairs and right sides
MatchQuestion(sid, n, p, pairs, right) ==
    [v |-> [OfflineQuestion("pbq-match", sid, n, p) EXCEPT
              !.left = [i \in DOMAIN pairs.v |-> pairs.v[i][1]],
              !.right = right.v,
              !.correct = [i \in DOMAIN pairs.v |-> Encode(pairs.v[i][1], pairs.v[i][2])]],
     t |-> right.t]

\* line 230: the right sides are shuffled after the pairs
MatchFromPairs(sid, n, p, pairs) ==
    MatchQuestion(sid, n, p, pairs, shuffle(pairs.t, RightsOf(pairs.v)))

\* lines 205-253: the question of the template drawn
PbqFromTemplate(sid, n, p, tpl) ==
    IF tpl.v.kind = "order"
    THEN [v |-> [OfflineQuestion("pbq-order", sid, n, p) EXCEPT !.correct = tpl.v.items],
          t |-> tpl.t]
    ELSE MatchFromPairs(sid, n, p, shuffle(tpl.t, tpl.v.pairs))

\* lines 202-254: buildPBQQuestion; what kind is built is in the template
buildPBQQuestion(c, sid, n, p, t) ==
    PbqFromTemplate(sid, n, p, pickOne(t, pbqTemplates(c)))

\* the first place of x in seq, 1 if there is none
FirstPlace(seq, x) ==
    LET found == Places(seq, {x})
    IN  IF found = {} THEN 1 ELSE CHOOSE i \in found : \A j \in found : i <= j

\* lines 277-300: the question of the options mixed
SingleFromMixed(sid, n, p, correctText, mixed) ==
    [v |-> [OfflineQuestion("single", sid, n, p) EXCEPT
              !.options = SubSeq(mixed.v, 1, Min(4, Len(mixed.v))),
              !.correct = <<FirstPlace(SubSeq(mixed.v, 1, Min(4, Len(mixed.v))), correctText)>>,
              !.focus = <<correctText>>],
     t |-> mixed.t]

\* line 277: the options are the correct text and the distractors, shuffled
SingleFromDistractors(sid, n, p, correctText, distractors) ==
    SingleFromMixed(sid, n, p, correctText,
                    shuffle(distractors.t, <<correctText>> \o distractors.v))

\* mutant: the distractors are drawn from the whole pool
SingleFromCorrectWholePool(c, sid, n, p, correctText) ==
    SingleFromDistractors(sid, n, p, correctText.v,
        takeDistinct(correctText.t, allBulletPool(c), 3))

\* line 275: three distractors from the pool without the correct text
SingleFromCorrect(c, sid, n, p, correctText) ==
    SingleFromDistractors(sid, n, p, correctText.v,
        takeDistinct(correctText.t,
                     SelectSeq(allBulletPool(c), LAMBDA x : x # correctText.v), 3))

\* lines 270-301: buildSingleFromObjective
buildSingleFromObjective(c, sid, n, p, t) ==
    SingleFromCorrect(c, sid, n, p,
        IF UsableBullets(p) # <<>> THEN pickOne(t, UsableBullets(p))
        ELSE [v |-> TitleOf(p.objectiveId), t |-> t])

\* the members of a list
Members(seq) == { seq[i] : i \in DOMAIN seq }

\* lines 311-334: the question of the options mixed
MultiFromMixed(sid, n, p, correctTexts, mixed) ==
    [v |-> [OfflineQuestion("multi", sid, n, p) EXCEPT
              !.options = SubSeq(mixed.v, 1, Min(5, Len(mixed.v))),
              !.correct = Rising(Places(SubSeq(mixed.v, 1, Min(5, Len(mixed.v))),
                                        Members(correctTexts))),
              !.focus = correctTexts],
     t |-> mixed.t]

\* line 311: the options are the correct texts and the distractors, shuffled
MultiFromDistractors(sid, n, p, correctTexts, distractors) ==
    MultiFromMixed(sid, n, p, correctTexts,
                   shuffle(distractors.t, correctTexts \o distractors.v))

\* line 309: three distractors from the pool without the correct texts
MultiFromCorrect(c, sid, n, p, correctTexts) ==
    MultiFromDistractors(sid, n, p, correctTexts.v,
        takeDistinct(correctTexts.t,
                     SelectSeq(allBulletPool(c), LAMBDA x : x \notin Members(correctTexts.v)), 3))

\* lines 303-335: buildMultiFromObjective
buildMultiFromObjective(c, sid, n, p, t) ==
    IF Len(UsableBullets(p)) < 2 THEN buildSingleFromObjective(c, sid, n, p, t)
    ELSE MultiFromCorrect(c, sid, n, p, takeDistinct(t, UsableBullets(p), 2))

\* lines 349-363: the body of the loop, for the n-th entry p of planShuffled
OfflineStep(c, sid, n, p, t) ==
    IF p.type \in PbqTypes THEN buildPBQQuestion(c, sid, n, p, t)
    ELSE IF p.type = "multi" THEN buildMultiFromObjective(c, sid, n, p, t)
    ELSE buildSingleFromObjective(c, sid, n, p, t)

\* lines 354-362: questions.push(q)
Pushed(qs, q) == [v |-> Append(qs, q.v), t |-> q.t]

\* lines 348-364: the questions pushed for the first n entries of ps
RECURSIVE OfflineLoop(_, _, _, _, _)
RECURSIVE OfflinePush(_, _, _, _, _)
OfflinePush(c, sid, ps, n, before) ==
    Pushed(before.v, OfflineStep(c, sid, n, ps[n], before.t))

OfflineLoop(c, sid, ps, t, n) ==
    IF n = 0 THEN [v |-> <<>>, t |-> t]
    ELSE OfflinePush(c, sid, ps, n, OfflineLoop(c, sid, ps, t, n - 1))

CharCodes(s) ==
    CASE s = "220-1201" -> <<50, 50, 48, 45, 49, 50, 48, 49>>
      [] s = "220-1202" -> <<50, 50, 48, 45, 49, 50, 48, 50>>
      [] s = "easy" -> <<101, 97, 115, 121>>
      [] s = "hard" -> <<104, 97, 114, 100>>
      [] s = "a" -> <<97>>
      [] s = "b" -> <<98>>

\* line 342: `${sessionId}:${core}:${config.difficulty}`
SeedString(a) ==
    CharCodes(a.sessionId) \o <<58>> \o CharCodes(a.core) \o <<58>> \o CharCodes(a.difficulty)

\* mutant: the seed takes in what the clock or Math.random gives
OfflineSeedAmbient(a) == (hashStringToSeed(SeedString(a)) + a.ambient) % RngMod

\* line 342: the seed of the generator of a call with arguments a
OfflineSeed(a) == hashStringToSeed(SeedString(a))

\* line 346: planShuffled
PlanShuffled(a) == shuffle(OfflineSeed(a), a.plan)

\* lines 348-364: the loop over planShuffled
OfflineBuilt(a, ps) == OfflineLoop(a.core, a.sessionId, ps.v, ps.t, Len(ps.v))

\* line 367: questions.slice(0, n)
OfflineSlice(built, n) == SubSeq(built.v, 1, Min(Len(built.v), n))

\* lines 341-368: buildOfflineQuestions
buildOfflineQuestions(a) == OfflineSlice(OfflineBuilt(a, PlanShuffled(a)), Len(a.plan))

OfflinePlans == UNION { [1..n -> OfflinePlanItems] : n \in 1..MaxOfflinePlan }

\* the arguments of a call, and ambient: what Date.now() and Math.random()
\* would give during the call, which no line of the function reads
OfflineArgs ==
    [core : Cores, sessionId : {"a", "b"}, difficulty : {"easy", "hard"},
     plan : OfflinePlans, ambient : 0..1]

\* two calls: of the same arguments, or of the same but for the session id
OfflineInit ==
    /\ offlineArgs \in { <<a, [a EXCEPT !.sessionId = s, !.ambient = m]>> :
                           a \in OfflineArgs, s \in {"a", "b"}, m \in 0..1 }
    /\ offline = [i \in 1..2 |-> [pc |-> "called", result |-> <<>>]]

OfflineIdle ==
    /\ offlineArgs = <<>>
    /\ offline = <<>>

\* buildOfflineQuestions(core, sessionId, config, plan), the i-th call
BuildOffline(i) ==
    /\ offline[i].pc = "called"
    /\ offline' = [offline EXCEPT ![i] = [pc |-> "returned",
                                          result |-> buildOfflineQuestions(offlineArgs[i])]]
    /\ UNCHANGED offlineArgs
    /\ UNCHANGED <<allocVars, planVars, callVars, appVars, routeVars, scoreVars, uiVars>>

(***************************************************************************)
(* The parts of the two user interfaces followed on their own: the values  *)
(* their variables have in the specifications of the other parts.          *)
(***************************************************************************)
NoSheet == [answers |-> <<>>, pbqState |-> <<>>]
NoTimer == [set |-> FALSE, seen |-> NoSheet]
NoStaticSession ==
    [present |-> FALSE, id |-> 0, status |-> "", remainingSeconds |-> 0, autoSubmitted |-> FALSE]

GenIdle ==
    /\ genFrom = NoGen
    /\ requestsSent = 0

TimerIdle ==
    /\ examScreen = "idle"
    /\ remainingSeconds = 0
    /\ entered = NoSheet
    /\ timerRef = NoTimer
    /\ timerResult = NoResult
    /\ attemptsRecorded = 0

SimIdle ==
    /\ simView = "idle"
    /\ paused = FALSE
    /\ progressN = 0
    /\ pendingTicks = 0
    /\ doneCalls = 0
    /\ clicks = 0

StaticIdle ==
    /\ view = "idle"
    /\ stateSession = NoStaticSession
    /\ timerHandle = FALSE
    /\ savedInProgress = NoStaticSession
    /\ attemptsLog = <<>>
    /\ sessionsStarted = 0

UiIdle == GenIdle /\ TimerIdle /\ SimIdle /\ StaticIdle

(***************************************************************************)
(* runGeneration followed from a persisted state to its end, when nothing  *)
(* is cancelled and every request is answered with a valid batch.          *)
(***************************************************************************)
\* the items collected for the first ni entries of a plan
CollectedFor(pl, ni) ==
    [k \in 1..ni |-> [generationId |-> 1, planIndex |-> k - 1, type |-> pl[k].type]]

GenBatchSizes == (1..MaxBatchSize) \cup { BATCH_SIZE }

\* a batch size and the place of a checkpoint: every place for the sizes
\* above, and the places BATCH_SIZE leads to for a batch longer than the plan
GenStarts ==
    { <<bs, ni>> : bs \in GenBatchSizes, ni \in 0..EXAM_QUESTION_COUNT }
    \cup { <<EXAM_QUESTION_COUNT + BATCH_SIZE, ni>> :
              ni \in { x \in 0..EXAM_QUESTION_COUNT : x % BATCH_SIZE = 0 } }

\* the states saveGeneration has written when ni entries of the plan are
\* answered, for batch sizes from 1 on
ResumableStates ==
    LET pl == SamplePlan(InitialCore)
    IN  { [present |-> TRUE, sessionId |-> 1, core |-> InitialCore, plan |-> pl,
           rawItems |-> CollectedFor(pl, st[2]),
           nextIndex |-> st[2], batchSize |-> st[1], lastError |-> err] :
            st \in GenStarts, err \in { Undefined, Paused } }

GenerateInit ==
    /\ stored \in ResumableStates
    /\ resumeGen = stored
    /\ screen = "setup"
    /\ session = NoSession
    /\ result = FALSE
    /\ abortRef = 0
    /\ runs = [r \in 1..MaxRuns |-> IdleRun]
    /\ sessionsMade = 1
    /\ effects = <<>>
    /\ genFrom = NoGen
    /\ requestsSent = 0

\* the calls of generateQuestions among the effects of a handler
RequestsIn(effs) == Cardinality({ k \in DOMAIN effs : effs[k].op = "request" })

\* ceil(a / b)
CeilDiv(a, b) == (a + b - 1) \div b

GenFrame == <<allocVars, planVars, callVars, routeVars, scoreVars, offlineVars,
              timerVars, simVars, staticVars>>

\* Resume on setup, the state resumed from being recorded
GenResume ==
    /\ ResumeGenerationStep
    /\ genFrom' = stored
    /\ requestsSent' = RequestsIn(effects')
    /\ UNCHANGED GenFrame

\* a batch arrives, the request that follows being counted
GenBatchSucceeds ==
    /\ \E r \in 1..MaxRuns : BatchSucceedsStep(r)
    /\ requestsSent' = requestsSent + RequestsIn(effects')
    /\ UNCHANGED genFrom
    /\ UNCHANGED GenFrame

(***************************************************************************)
(* The exam countdown of the React app.  The effect that starts the        *)
(* interval has the dependencies [screen, session]: its callback is made   *)
(* in the render in which the exam screen is entered and calls the         *)
(* finalizeSubmit of that render, whose answers and pbqState are those of  *)
(* that render.  A step is a handler together with the render and the      *)
(* effects that follow it.                                                 *)
(***************************************************************************)
\* the session on the exam screen: a choice question and a PBQ
TimerQuestions ==
    normalizeQuestions(<<RawChoice("single", NumOptions, <<0>>), RawOrder(<<1, 2, 3>>, <<0, 1, 2>>)>>)

\* lines 228-230: setAnswers({}); setPbqState({})
BlankSheet ==
    [answers |-> [k \in DOMAIN TimerQuestions |-> NotGiven],
     pbqState |-> [k \in DOMAIN TimerQuestions |-> NotGiven]]

\* the sheet after sub is entered for question k
EnteredFor(sheet, k, sub) ==
    IF TimerQuestions[k].type \in PbqTypes
    THEN [sheet EXCEPT !.pbqState[k] = sub]
    ELSE [sheet EXCEPT !.answers[k] = sub]

\* line 308: const r = scoreExam(session, answers, pbqState), in the render
\* whose answers and pbqState are those of sheet
finalizeSubmit(sheet) == scoreExam(TimerQuestions, sheet.answers, sheet.pbqState)

\* lines 228-234 and 122-141: the session is assembled, the exam screen is
\* rendered and the effect has started the interval
TimerInit ==
    /\ examScreen = "exam"
    /\ remainingSeconds = MaxSeconds
    /\ entered = BlankSheet
    /\ timerRef = [set |-> TRUE, seen |-> BlankSheet]
    /\ timerResult = NoResult
    /\ attemptsRecorded = 0

TimerFrame == <<allocVars, planVars, callVars, appVars, routeVars, scoreVars, offlineVars,
                genVars, simVars, staticVars>>

\* lines 130-140: the interval fires
ExamTick ==
    /\ timerRef.set
    /\ IF remainingSeconds <= 1
       THEN /\ timerRef' = NoTimer
            /\ timerResult' = finalizeSubmit(timerRef.seen)
            /\ examScreen' = "results"
            /\ attemptsRecorded' = attemptsRecorded + 1
            /\ remainingSeconds' = 0
       ELSE /\ remainingSeconds' = remainingSeconds - 1
            /\ UNCHANGED <<examScreen, timerRef, timerResult, attemptsRecorded>>
    /\ UNCHANGED entered
    /\ UNCHANGED TimerFrame

\* lines 507, 744, 784: an answer is entered on the exam screen; screen and
\* session are as they were and the effect is not run again
EnterAnswer ==
    /\ examScreen = "exam"
    /\ \E k \in DOMAIN TimerQuestions :
          \E sub \in ShortSubmissions(TimerQuestions[k]) \ { NotGiven } :
              entered' = EnteredFor(entered, k, sub)
    /\ UNCHANGED <<examScreen, remainingSeconds, timerRef, timerResult, attemptsRecorded>>
    /\ UNCHANGED TimerFrame

\* lines 302-304, 123-126: Submit on the exam screen; the effect clears the interval
ExamOpenReview ==
    /\ examScreen = "exam"
    /\ examScreen' = "review"
    /\ timerRef' = NoTimer
    /\ UNCHANGED <<remainingSeconds, entered, timerResult, attemptsRecorded>>
    /\ UNCHANGED TimerFrame

\* lines 564, 128-140: Return to Exam; the effect starts an interval whose
\* callback is of this render
ExamReturn ==
    /\ examScreen = "review"
    /\ examScreen' = "exam"
    /\ timerRef' = [set |-> TRUE, seen |-> entered]
    /\ UNCHANGED <<remainingSeconds, entered, timerResult, attemptsRecorded>>
    /\ UNCHANGED TimerFrame

\* lines 565, 306-317: Final Submit on the review screen
ExamFinalSubmit ==
    /\ examScreen = "review"
    /\ timerResult' = finalizeSubmit(entered)
    /\ examScreen' = "results"
    /\ attemptsRecorded' = attemptsRecorded + 1
    /\ timerRef' = NoTimer
    /\ UNCHANGED <<remainingSeconds, entered>>
    /\ UNCHANGED TimerFrame

(***************************************************************************)
(* simulateGenerating(done) of the static app.  A step is a click handler  *)
(* or a timeout callback, run to its end.  The elements #genProg, #pauseGen *)
(* and #resumeGen exist while the view is "generating".                    *)
(***************************************************************************)
TOTAL_Q == 90
\* line 443: remainingSeconds % 5
PERSIST_EVERY == 5
\* line 418: n + 10
TICK_QUESTIONS == 10

SimInit ==
    /\ simView = "setup"
    /\ paused = FALSE
    /\ progressN = 0
    /\ pendingTicks = 0
    /\ doneCalls = 0
    /\ clicks = 0

SimFrame == <<allocVars, planVars, callVars, appVars, routeVars, scoreVars, offlineVars,
              genVars, timerVars, staticVars>>

\* lines 416-423: tick(), called with this value of paused when now is the
\* view and pend timeouts are pending; $("#genProg") is null in any view
\* but "generating", and line 419 then throws
SimTick(isPaused, now, pend) ==
    IF isPaused
    THEN /\ progressN' = progressN
         /\ pendingTicks' = pend
         /\ simView' = now
         /\ doneCalls' = doneCalls
    ELSE /\ progressN' = Min(TOTAL_Q, progressN + TICK_QUESTIONS)
         /\ IF now # "generating"
            THEN /\ pendingTicks' = pend
                 /\ simView' = now
                 /\ doneCalls' = doneCalls
            ELSE IF progressN' >= TOTAL_Q
            THEN /\ pendingTicks' = pend
                 /\ simView' = "exam"
                 /\ doneCalls' = doneCalls + 1
            ELSE /\ pendingTicks' = pend + 1
                 /\ simView' = now
                 /\ doneCalls' = doneCalls

\* lines 282-291, 406-426: Start Session, up to the end of simulateGenerating
SimStart ==
    /\ simView = "setup"
    /\ paused' = FALSE
    /\ SimTick(FALSE, "generating", 0)
    /\ UNCHANGED clicks
    /\ UNCHANGED SimFrame

\* line 410: pauseBtn, a click on Pause while it is enabled
SimPause ==
    /\ simView = "generating"
    /\ ~paused
    /\ clicks < MaxClicks
    /\ paused' = TRUE
    /\ clicks' = clicks + 1
    /\ UNCHANGED <<simView, progressN, pendingTicks, doneCalls>>
    /\ UNCHANGED SimFrame

\* line 411: resumeBtn, a click on Resume while it is enabled
SimResume ==
    /\ simView = "generating"
    /\ paused
    /\ clicks < MaxClicks
    /\ paused' = FALSE
    /\ SimTick(FALSE, simView, pendingTicks)
    /\ clicks' = clicks + 1
    /\ UNCHANGED SimFrame

\* line 422: a timeout set by setTimeout(tick, 180) fires
SimTimeout ==
    /\ pendingTicks > 0
    /\ SimTick(paused, simView, pendingTicks - 1)
    /\ UNCHANGED <<paused, clicks>>
    /\ UNCHANGED SimFrame

(***************************************************************************)
(* The countdown of the static app: startTimer, submitExam and the buttons *)
(* that change the view, the session or what is saved.  A step is a click  *)
(* handler or an interval callback, run to its end.  simulateGenerating is *)
(* its call of done.                                                       *)
(***************************************************************************)
\* lines 251-264: newSession; MaxExamSeconds stands for TOTAL_MINUTES * 60
NewStaticSession(id) ==
    [present |-> TRUE, id |-> id, status |-> "in_progress",
     remainingSeconds |-> MaxExamSeconds, autoSubmitted |-> FALSE]

\* lines 990-995: the page is loaded, nothing is saved
StaticInit ==
    /\ view = "setup"
    /\ stateSession = NoStaticSession
    /\ timerHandle = FALSE
    /\ savedInProgress = NoStaticSession
    /\ attemptsLog = <<>>
    /\ sessionsStarted = 0

StaticFrame == <<allocVars, planVars, callVars, appVars, routeVars, scoreVars, offlineVars,
                 genVars, timerVars, simVars>>

\* lines 457-460: persist(), as what is saved after it
Persisted(sess, saved) == IF sess.present THEN sess ELSE saved

\* lines 667-697: submitExam(auto) of a session that is set
submitExam(sess, auto) ==
    /\ stateSession' = [sess EXCEPT !.status = "submitted", !.autoSubmitted = auto]
    /\ timerHandle' = FALSE
    /\ savedInProgress' = NoStaticSession
    /\ attemptsLog' = <<[id |-> sess.id, autoSubmitted |-> auto]>> \o attemptsLog
    /\ view' = "results"

\* lines 29, 770, 277-280: Setup in the header, New Session on results
NavSetup ==
    /\ stateSession' = NoStaticSession
    /\ view' = "setup"
    /\ UNCHANGED <<timerHandle, savedInProgress, attemptsLog, sessionsStarted>>
    /\ UNCHANGED StaticFrame

\* lines 30, 771, 837-839: Analytics in the header and on results
NavAnalytics ==
    /\ view' = "analytics"
    /\ UNCHANGED <<stateSession, timerHandle, savedInProgress, attemptsLog, sessionsStarted>>
    /\ UNCHANGED StaticFrame

\* lines 282-286: Start Session, up to the generating view
StaticStart ==
    /\ view = "setup"
    /\ sessionsStarted < MaxStarts
    /\ sessionsStarted' = sessionsStarted + 1
    /\ stateSession' = NewStaticSession(sessionsStarted + 1)
    /\ view' = "generating"
    /\ UNCHANGED <<timerHandle, savedInProgress, attemptsLog>>
    /\ UNCHANGED StaticFrame

\* lines 286-290: the callback done
GenerationDone ==
    /\ view = "generating"
    /\ view' = "exam"
    /\ timerHandle' = TRUE
    /\ savedInProgress' = Persisted(stateSession, savedInProgress)
    /\ UNCHANGED <<stateSession, attemptsLog, sessionsStarted>>
    /\ UNCHANGED StaticFrame

\* mutant: the countdown ends below 0 only
TickEndsBelowZero(r) == r < 0

\* line 437: if (state.session.remainingSeconds <= 0)
TickEnds(r) == r <= 0

\* lines 434-444: the interval fires on a session in progress
StaticTick ==
    /\ timerHandle
    /\ stateSession.present
    /\ stateSession.status = "in_progress"
    /\ IF TickEnds(stateSession.remainingSeconds - 1)
       THEN submitExam([stateSession EXCEPT !.remainingSeconds = 0], TRUE)
       ELSE /\ stateSession' = [stateSession EXCEPT !.remainingSeconds = @ - 1]
            /\ savedInProgress' =
                  IF stateSession'.remainingSeconds % PERSIST_EVERY = 0
                  THEN stateSession' ELSE savedInProgress
            /\ UNCHANGED <<view, timerHandle, attemptsLog>>
    /\ UNCHANGED sessionsStarted
    /\ UNCHANGED StaticFrame

\* lines 595, 667-697: Submit on the exam view
StaticSubmit ==
    /\ view = "exam"
    /\ stateSession.present
    /\ submitExam(stateSession, FALSE)
    /\ UNCHANGED sessionsStarted
    /\ UNCHANGED StaticFrame

\* line 596: Save & Exit on the exam view
SaveExit ==
    /\ view = "exam"
    /\ savedInProgress' = Persisted(stateSession, savedInProgress)
    /\ timerHandle' = FALSE
    /\ stateSession' = NoStaticSession
    /\ view' = "setup"
    /\ UNCHANGED <<attemptsLog, sessionsStarted>>
    /\ UNCHANGED StaticFrame

\* lines 364-372: Resume on the setup view
ResumeSaved ==
    /\ view = "setup"
    /\ savedInProgress.present
    /\ stateSession' = savedInProgress
    /\ view' = "exam"
    /\ timerHandle' = TRUE
    /\ UNCHANGED <<savedInProgress, attemptsLog, sessionsStarted>>
    /\ UNCHANGED StaticFrame

\* lines 374-377: Clear on the setup view
ClearSaved ==
    /\ view = "setup"
    /\ savedInProgress.present
    /\ savedInProgress' = NoStaticSession
    /\ stateSession' = NoStaticSession
    /\ UNCHANGED <<view, timerHandle, attemptsLog, sessionsStarted>>
    /\ UNCHANGED StaticFrame

\* lines 990-995: the page is loaded again; what is saved is kept
StaticReload ==
    /\ view # "setup" \/ timerHandle
    /\ view' = "setup"
    /\ stateSession' = NoStaticSession
    /\ timerHandle' = FALSE
    /\ UNCHANGED <<savedInProgress, attemptsLog, sessionsStarted>>
    /\ UNCHANGED StaticFrame

\* lines 462-478: setAnswer, toggleFlag, gotoQuestion on the exam view
StaticAnswer ==
    /\ view = "exam"
    /\ stateSession.present
    /\ savedInProgress' = stateSession
    /\ UNCHANGED <<view, stateSession, timerHandle, attemptsLog, sessionsStarted>>
    /\ UNCHANGED StaticFrame

(***************************************************************************)
(* Specifications.                                                         *)
(***************************************************************************)
SpecAllocInit == AllocInit /\ PlanIdle /\ CallIdle /\ AppIdle /\ RouteIdle /\ ScoreIdle /\ OfflineIdle /\ UiIdle
SpecAllocNext == AllocateCall
SpecAlloc == SpecAllocInit /\ [][SpecAllocNext]_vars

SpecPlanInit == PlanInit /\ AllocIdle /\ CallIdle /\ AppIdle /\ RouteIdle /\ ScoreIdle /\ OfflineIdle /\ UiIdle
SpecPlanNext ==
    \/ BuildPlanFill
    \/ BuildPlanInjectPbq
    \/ BuildPlanPbqDone
    \/ BuildPlanSprinkleMulti
    \/ BuildPlanReturn
SpecPlan == SpecPlanInit /\ [][SpecPlanNext]_vars

SpecCallInit == CallInit /\ AllocIdle /\ PlanIdle /\ AppIdle /\ RouteIdle /\ ScoreIdle /\ OfflineIdle /\ UiIdle
SpecCallNext ==
    \/ CallOpenAINoKey
    \/ CallOpenAIStart
    \/ CallOpenAINotOk
    \/ CallOpenAIValid
    \/ CallOpenAIRetry
    \/ CallOpenAIGiveUp
SpecCall == SpecCallInit /\ [][SpecCallNext]_vars

SpecAssembleInit == AssembleInit /\ AllocIdle /\ PlanIdle /\ CallIdle /\ RouteIdle /\ ScoreIdle /\ OfflineIdle /\ UiIdle
SpecAssembleNext == AssembleSession
SpecAssemble == SpecAssembleInit /\ [][SpecAssembleNext]_vars

SpecScoreInit == ScoreInit /\ AllocIdle /\ PlanIdle /\ CallIdle /\ AppIdle /\ RouteIdle /\ OfflineIdle /\ UiIdle
SpecScoreNext ==
    \/ Normalize
    \/ Score
SpecScore == SpecScoreInit /\ [][SpecScoreNext]_vars

SpecRouteInit == RouteInit /\ AllocIdle /\ PlanIdle /\ CallIdle /\ AppIdle /\ ScoreIdle /\ OfflineIdle /\ UiIdle
SpecRouteNext ==
    \/ Receive
    \/ BackendReturns
    \/ BackendThrows
    \/ Tick
SpecRoute == SpecRouteInit /\ [][SpecRouteNext]_vars

SpecOfflineInit ==
    OfflineInit /\ AllocIdle /\ PlanIdle /\ CallIdle /\ AppIdle /\ RouteIdle /\ ScoreIdle /\ UiIdle
SpecOfflineNext == \E i \in 1..2 : BuildOffline(i)
SpecOffline == SpecOfflineInit /\ [][SpecOfflineNext]_vars

SpecGenerateInit ==
    GenerateInit /\ AllocIdle /\ PlanIdle /\ CallIdle /\ RouteIdle /\ ScoreIdle /\ OfflineIdle
    /\ TimerIdle /\ SimIdle /\ StaticIdle
SpecGenerateNext ==
    \/ GenResume
    \/ GenBatchSucceeds
\* every request is answered in the end; Resume is the user's to press
SpecGenerate == SpecGenerateInit /\ [][SpecGenerateNext]_vars /\ WF_vars(GenBatchSucceeds)

SpecTimerInit ==
    TimerInit /\ AllocIdle /\ PlanIdle /\ CallIdle /\ AppIdle /\ RouteIdle /\ ScoreIdle /\ OfflineIdle
    /\ GenIdle /\ SimIdle /\ StaticIdle
SpecTimerNext ==
    \/ ExamTick
    \/ EnterAnswer
    \/ ExamOpenReview
    \/ ExamReturn
    \/ ExamFinalSubmit
SpecTimer == SpecTimerInit /\ [][SpecTimerNext]_vars

SpecSimInit ==
    SimInit /\ AllocIdle /\ PlanIdle /\ CallIdle /\ AppIdle /\ RouteIdle /\ ScoreIdle /\ OfflineIdle
    /\ GenIdle /\ TimerIdle /\ StaticIdle
SpecSimNext ==
    \/ SimStart
    \/ SimPause
    \/ SimResume
    \/ SimTimeout
SpecSim == SpecSimInit /\ [][SpecSimNext]_vars

SpecStaticInit ==
    StaticInit /\ AllocIdle /\ PlanIdle /\ CallIdle /\ AppIdle /\ RouteIdle /\ ScoreIdle /\ OfflineIdle
    /\ GenIdle /\ TimerIdle /\ SimIdle
SpecStaticNext ==
    \/ NavSetup
    \/ NavAnalytics
    \/ StaticStart
    \/ GenerationDone
    \/ StaticTick
    \/ StaticSubmit
    \/ SaveExit
    \/ ResumeSaved
    \/ ClearSaved
    \/ StaticAnswer
    \/ StaticReload
SpecStatic == SpecStaticInit /\ [][SpecStaticNext]_vars

Init == AppInit /\ AllocIdle /\ PlanIdle /\ CallIdle /\ RouteIdle /\ ScoreIdle /\ OfflineIdle /\ UiIdle
Next ==
    \/ StartNewSession
    \/ ResumeGeneration
    \/ \E r \in 1..MaxRuns : BatchSucceeds(r)
    \/ \E r \in 1..MaxRuns : BatchFails(r)
    \/ \E r \in 1..MaxRuns : BatchAborted(r)
    \/ CancelGeneration
    \/ DiscardGeneration
    \/ OpenAnalytics
    \/ CloseAnalytics
    \/ OpenReview
    \/ ReturnToExam
    \/ FinalizeSubmit
    \/ ChangeCore
    \/ Reload
Spec == Init /\ [][Next]_vars

(***************************************************************************)
(* Properties of allocateByWeight.                                         *)
(***************************************************************************)
WeightSum == SumSeq(blueprint)
CountValues == [k \in DOMAIN counts.counts |-> counts.counts[k].v]
\* floor(T * weight / sum), computed exactly
IdealFloor(k) == (total * blueprint[k]) \div WeightSum

ValidAllocArgs ==
    /\ Len(blueprint) >= 1
    /\ \A k \in DOMAIN blueprint : blueprint[k] > 0
    /\ total >= 0

InvalidAllocArgs == total < 0 \/ WeightSum = 0 \/ Len(blueprint) = 0

\* C1: for a blueprint of positive weights and a total T >= 0 the counts
\* returned by allocateByWeight are numbers, one per key, that sum to T.
C1_CountsSumToTotal ==
    (allocPc = "done" /\ ValidAllocArgs) =>
        /\ counts.status = "returned"
        /\ Len(counts.counts) = Len(blueprint)
        /\ \A k \in DOMAIN counts.counts : ~counts.counts[k].nan
        /\ SumSeq(CountValues) = total

\* a call where a double fell below its exact integer value and the
\* shortfall loop had to make it up
C1_Witness ==
    /\ allocPc = "done" /\ ValidAllocArgs
    /\ Len(blueprint) >= 2
    /\ \E k \in DOMAIN blueprint :
          /\ roundErr[k] < 0
          /\ (total * blueprint[k]) % WeightSum = 0
          /\ counts.counts[k].v = IdealFloor(k)
    /\ SumSeq(CountValues) = total

\* C2: for a blueprint of positive weights and T >= 0 every key receives
\* floor(T*weight/sum) or that plus one, never two or more extra units.
C2_FloorOrFloorPlusOne ==
    (allocPc = "done" /\ ValidAllocArgs) =>
        \A k \in DOMAIN blueprint :
            /\ ~counts.counts[k].nan
            /\ counts.counts[k].v \in {IdealFloor(k), IdealFloor(k) + 1}
            /\ counts.counts[k].v >= 0

\* a call that hands out two extra units, to two different keys
C2_Witness ==
    /\ allocPc = "done" /\ ValidAllocArgs
    /\ total - SumSeq([k \in DOMAIN blueprint |-> IdealFloor(k)]) >= 2
    /\ \E j, k \in DOMAIN blueprint :
          /\ j # k
          /\ counts.counts[j].v = IdealFloor(j) + 1
          /\ counts.counts[k].v = IdealFloor(k) + 1

\* C3: the allocator fails with InvalidAllocation, returning no counts,
\* whenever T < 0, the weights sum to 0 or the key list is empty.
C3_InvalidAllocationRaised ==
    (allocPc = "done" /\ InvalidAllocArgs) => counts.status = "InvalidAllocation"

(***************************************************************************)
(* Properties of buildPlan.                                                *)
(***************************************************************************)
PbqEntries == { i \in DOMAIN plan : plan[i].type \in PbqTypes }

\* C4: for either core and any pbqCount the plan returned by buildPlan has
\* exactly EXAM_QUESTION_COUNT entries.
C4_PlanHasExamLength ==
    planPc = "done" => Len(plan) = EXAM_QUESTION_COUNT

\* a returned plan whose PBQ and multi-select passes both changed entries
C4_Witness ==
    /\ planPc = "done"
    /\ Len(plan) = EXAM_QUESTION_COUNT
    /\ PbqEntries # {}
    /\ \E i \in DOMAIN plan : plan[i].type = "multi"

InRange(n, lo, hi) == n # Absent /\ lo <= n /\ n <= hi

\* the cardinality limits of an item, by its type
WithinLimits(q) ==
    /\ q.type \in {"single", "multi"} =>
         InRange(q.options, 4, 6) /\ InRange(q.correctIndices, 1, 3)
    /\ q.type = "pbq-order" =>
         InRange(q.orderItems, 4, 8) /\ q.correctOrder = q.orderItems
    /\ q.type = "pbq-match" =>
         InRange(q.left, 3, 8) /\ InRange(q.right, 3, 8)

\* C6: callOpenAI returns a batch only if the reply held a JSON object whose
\* only top-level key is items, an array with one element per requested plan
\* item, each element within the cardinality limits of its type; what is
\* returned is that array.
C6_ReturnedBatchConforms ==
    callResult.status = "returned" =>
        /\ accepted.ok
        /\ accepted.json = "object"
        /\ accepted.keys = {"items"}
        /\ accepted.isArray
        /\ Len(accepted.items) = Len(items)
        /\ \A i \in DOMAIN accepted.items : WithinLimits(accepted.items[i])
        /\ callResult.items = accepted.items

\* a batch of two returned on the second attempt, an item on its limits
C6_Witness ==
    /\ callResult.status = "returned"
    /\ Len(items) = 2
    /\ Len(sent) = 2
    /\ \E i \in DOMAIN callResult.items :
         callResult.items[i].type = "pbq-order" /\ callResult.items[i].orderItems = 8
    /\ \E i \in DOMAIN callResult.items :
         callResult.items[i].type = "multi" /\ callResult.items[i].options = 5

\* C7: one call invokes the backend at most twice; the second request is made
\* only after the first reply failed validation and carries that message; if
\* the second reply fails too the call throws with the last message.
C7_AtMostOneRetry ==
    /\ Len(sent) <= 2
    /\ Len(sent) >= 1 => sent[1].fix = Null
    /\ Len(sent) = 2 => /\ Len(failures) >= 1
                        /\ sent[2].fix = failures[1]
                        /\ sent[2].fix # Null
    /\ Len(failures) <= Len(sent)
    /\ Len(failures) = 2 =>
         /\ callResult.status = "threw"
         /\ callResult.error = Msg("Model returned invalid JSON after retries")
         /\ callResult.detail = failures[2]
    /\ callPc = "done" => callResult.status # "pending"

\* both replies failed validation, for different reasons
C7_Witness ==
    /\ callPc = "done"
    /\ Len(sent) = 2
    /\ Len(failures) = 2
    /\ failures[1] # failures[2]
    /\ callResult.detail = failures[2]

\* C8: every batch accepted by validation has at each position an item of
\* the type requested by the plan item at that position.
C8_TypesAsRequested ==
    callResult.status = "returned" =>
        \A i \in DOMAIN callResult.items : callResult.items[i].type = items[i]

(***************************************************************************)
(* Properties of the resumable batch loop.                                 *)
(***************************************************************************)
\* the states written to storage by the last step, in program order
SavedStates == { effects[p].value : p \in { q \in DOMAIN effects : effects[q].op = "save" } }

\* the state in storage and the states the last step wrote there
PersistedStates == SavedStates \cup (IF stored.present THEN {stored} ELSE {})

ConsistentGeneration(g) ==
    /\ 0 <= g.nextIndex
    /\ g.nextIndex <= Len(g.plan)
    /\ Len(g.rawItems) = g.nextIndex
    /\ \A k \in DOMAIN g.rawItems :
          /\ g.rawItems[k].planIndex = k - 1
          /\ g.rawItems[k].generationId = g.sessionId

CheckpointStep ==
    (Len(effects') >= 1 /\ effects'[1].op = "reply") =>
        LET r == effects'[1].run
            i == effects'[1].i
            out == effects'[1].out
            g == runs[r].g
        IN  /\ runs[r].pc = "await"
            /\ runs[r].i = i
            /\ Len(effects') >= 2
            /\ effects'[2].op = "save"
            /\ effects'[2].run = r
            /\ effects'[2].value.nextIndex = Min(i + g.batchSize, Len(g.plan))
            /\ effects'[2].value.rawItems = runs[r].items \o out
            /\ effects'[2].value.lastError = Undefined
            /\ effects'[2].value.sessionId = g.sessionId
            /\ effects'[2].value.plan = g.plan
            /\ \A p \in DOMAIN effects' :
                  effects'[p].op = "request" =>
                     /\ p > 2
                     /\ effects'[p].run = r
                     /\ effects'[p].i = effects'[2].value.nextIndex
            /\ i + g.batchSize < Len(g.plan) =>
                  \E p \in DOMAIN effects' : effects'[p].op = "request"

\* every request follows, in its step, the save of the state it continues,
\* or is the first request of a resumed run and continues the stored state
RequestAfterSave ==
    \A p \in DOMAIN effects' :
        effects'[p].op = "request" =>
            \/ /\ p > 1
               /\ effects'[p - 1].op = "save"
               /\ effects'[p - 1].run = effects'[p].run
               /\ effects'[p - 1].value.nextIndex = effects'[p].i
            \/ /\ p = 1
               /\ stored.present
               /\ stored.nextIndex = effects'[p].i

\* C10: after every successful batch the persisted state has nextIndex =
\* min(i + batchSize, plan.length), rawItems = the items the run had
\* collected followed by exactly that batch's items, and lastError cleared;
\* the checkpoint is written before the next batch is requested.
C10_CheckpointAfterBatch == [][CheckpointStep /\ RequestAfterSave]_vars

\* a batch of a resumed or continuing run was appended to earlier items,
\* checkpointed and the next batch requested
C10_Witness ==
    /\ Len(effects) = 3
    /\ effects[1].op = "reply"
    /\ effects[2].op = "save"
    /\ effects[3].op = "request"
    /\ effects[1].i > 0
    /\ Len(effects[2].value.rawItems) = effects[1].i + Len(effects[1].out)
    /\ stored = effects[2].value
    /\ effects[3].i = stored.nextIndex

\* the state in storage is a checkpoint of the generation of run r: it was
\* written by startNewSession or after a successful batch
AtCheckpoint(r) ==
    /\ stored.present
    /\ stored.lastError = Undefined
    /\ stored.sessionId = runs[r].g.sessionId

\* the step in which the batch call of a run fails
FailureStep ==
    (Len(effects') >= 1 /\ effects'[1].op = "error" /\ AtCheckpoint(effects'[1].run)) =>
        /\ stored'.present
        /\ stored'.nextIndex = stored.nextIndex
        /\ stored'.rawItems = stored.rawItems
        /\ stored'.lastError \in FailureMessages

\* C11: when a batch call fails, the persisted state keeps nextIndex and
\* rawItems exactly as of the last successful checkpoint, lastError is the
\* failure message and the state is not deleted.
C11_FailureKeepsCheckpoint == [][FailureStep]_vars

\* one item per plan entry 0 .. Len(its) - 1, in plan order, none twice
OnePerPlanEntry(its) == \A k \in DOMAIN its : its[k].planIndex = k - 1

\* a run waiting for a batch asks for the slice after the items it holds
NoReissue ==
    \A r \in DOMAIN runs :
        runs[r].pc = "await" =>
            /\ runs[r].i = Len(runs[r].items)
            /\ runs[r].i < Len(runs[r].g.plan)
            /\ OnePerPlanEntry(runs[r].items)

\* the step of resumeGeneration: the only one whose first effect is a request
ResumeStep ==
    (Len(effects') >= 1 /\ effects'[1].op = "request") =>
        LET r == effects'[1].run
        IN  /\ stored.present
            /\ effects'[1].i = stored.nextIndex
            /\ runs'[r].pc = "await"
            /\ runs'[r].i = stored.nextIndex
            /\ runs'[r].items = stored.rawItems
            /\ Len(effects') = 1

\* the step in which a run completes: the last checkpoint holds the whole
\* plan and the session gets one question per plan entry
CompletionStep ==
    \A p \in DOMAIN effects' :
        (effects'[p].op = "remove" /\ effects'[p].run # 0) =>
            /\ p > 1
            /\ effects'[p - 1].op = "save"
            /\ Len(effects'[p - 1].value.rawItems) = Len(effects'[p - 1].value.plan)
            /\ OnePerPlanEntry(effects'[p - 1].value.rawItems)
            /\ session'.present
            /\ session'.questions = Len(effects'[p - 1].value.plan)

CancelStep ==
    (Len(effects') >= 1 /\ effects'[1].op = "abort" /\ AtCheckpoint(effects'[1].run)) =>
        /\ stored'.present
        /\ stored'.nextIndex = stored.nextIndex
        /\ stored'.rawItems = stored.rawItems
        /\ stored'.lastError = Undefined

\* C13: when the in-flight batch call is cancelled, the persisted state
\* keeps nextIndex and rawItems exactly as of the last successful
\* checkpoint and no error message is recorded in the state.
C13_CancelKeepsCheckpoint == [][CancelStep]_vars

\* the runs of generation s that wait for a batch
Outstanding(s) == { r \in DOMAIN runs : runs[r].pc = "await" /\ runs[r].g.sessionId = s }

\* C14: for one generation (one sessionId) at most one batch request is
\* outstanding at any time, under every interleaving the UI allows.
C14_OneRequestOutstanding ==
    \A s \in 1..MaxSessions : Cardinality(Outstanding(s)) <= 1

(***************************************************************************)
(* Properties of the generate route.                                       *)
(***************************************************************************)
\* the step is the synchronous part of the handler, for request response'.req
ReceiveStep == handled' = handled + 1

\* the cache holds a batch generated for the fingerprint of req, stored no
\* longer than CACHE_TTL_MS ago
LiveEntry(req) ==
    /\ req.method = "POST"
    /\ cache[CacheKey(req)].present
    /\ clock <= cache[CacheKey(req)].expiresAt

\* req is answered from the cache and callOpenAI is not called
AnsweredFromCache(req) ==
    /\ response'.status = 200
    /\ response'.cached
    /\ response'.items = cache[CacheKey(req)].value
    /\ inFlight' = inFlight
    /\ cache' = cache

\* what is stored is what was sent, and it lives for CACHE_TTL_MS
StoredAsSent ==
    (Len(inFlight') < Len(inFlight) /\ response'.status = 200) =>
        /\ ~response'.cached
        /\ cache'[CacheKey(response'.req)] =
              [present |-> TRUE, value |-> response'.items, expiresAt |-> clock + CACHE_TTL_MS]

\* C15 as stated: a request whose fingerprint equals that of an earlier
\* successfully generated request within the TTL is answered with the same
\* items and cached: true, and the backend is not invoked for it.
C15_SameFingerprintCached ==
    [][(ReceiveStep /\ LiveEntry(response'.req)) => AnsweredFromCache(response'.req)]_vars

\* C15, amended: such a request is answered from the cache provided the rate
\* limiter admits it; one over the limit is answered 429, and the backend
\* is not invoked for it either.
C15_AdmittedSameFingerprintCached ==
    [][/\ StoredAsSent
       /\ (ReceiveStep /\ LiveEntry(response'.req)) =>
             IF EnforceRateLimit(rate, response'.req.ip, clock).ok
             THEN AnsweredFromCache(response'.req)
             ELSE response'.status = 429 /\ inFlight' = inFlight /\ cache' = cache]_vars

\* a hit at the last moment of the entry's life, and a different batch index
\* of the same generation is not in the cache
C15_Witness ==
    /\ response.status = 200
    /\ response.cached
    /\ response.items # <<>>
    /\ cache[CacheKey(response.req)].expiresAt = clock
    /\ clock = CACHE_TTL_MS
    /\ \E req \in Requests :
          /\ req.items = response.req.items
          /\ req.batchIndex # response.req.batchIndex
          /\ ~cache[CacheKey(req)].present

\* the items the handler is to refuse
InvalidItems(its) ==
    \/ Len(its) = 0
    \/ Len(its) > MAX_REQUEST_ITEMS
    \/ \E k \in DOMAIN its : ~its[k].objectiveId \/ ~its[k].objectiveTitle \/ its[k].type = ""

\* C16: the handler rejects a request with a client error (4xx) and never
\* invokes the backend when items is empty, has more than 20 entries, or a
\* plan item lacks objectiveId, objectiveTitle or its answer type.
C16_InvalidItemsClientError ==
    [][(ReceiveStep /\ InvalidItems(response'.req.items)) =>
          /\ response'.status \in 400..499
          /\ inFlight' = inFlight
          /\ cache' = cache]_vars

(***************************************************************************)
(* Properties of session assembly.                                         *)
(***************************************************************************)
\* the step past the loop of a run
AssembleStep(r) == runs[r].pc = "normalize" /\ runs'[r].pc = "idle"

\* C17: a session is assembled only when the number of normalized items
\* equals EXAM_QUESTION_COUNT exactly; when it differs in either direction
\* assembly fails with an error and the list is not truncated or padded.
C17_AssembledOnlyWhenExact ==
    [][\A r \in DOMAIN runs :
         AssembleStep(r) =>
            IF RecognizedCount(runs[r].items) = EXAM_QUESTION_COUNT
            THEN /\ session'.present
                 /\ session'.questions = EXAM_QUESTION_COUNT
                 /\ screen' = "exam"
            ELSE /\ ~session'.present
                 /\ screen' = "setup"
                 /\ stored'.present
                 /\ stored'.lastError = Msg("Generator returned a wrong number of questions")]_vars

(***************************************************************************)
(* Properties of the lifecycle of the persisted state.                     *)
(***************************************************************************)
\* the last step removed the state: by a completed run, or by Discard (run 0)
RemovedBy == { effects'[p].run : p \in { q \in DOMAIN effects' : effects'[q].op = "remove" } }

EntersExamFromGeneration == screen' = "exam" /\ screen \notin {"exam", "review"}

CatchStep == Len(effects') >= 1 /\ effects'[1].op \in {"error", "abort"}

LifecycleStep ==
    /\ EntersExamFromGeneration => (~stored'.present /\ session'.present /\ RemovedBy # {})
    /\ 0 \in RemovedBy => ~stored'.present
    /\ CatchStep => (stored'.present /\ RemovedBy = {})
    /\ (stored.present /\ ~stored'.present) =>
          \/ 0 \in RemovedBy
          \/ RemovedBy # {} /\ session'.present /\ screen' = "exam"

\* C18: the persisted state is removed exactly when a session is assembled
\* or the caller discards it: none is persisted when the app enters the
\* exam screen from generation or after discardGeneration, and a failed or
\* cancelled batch never removes it.
C18_RemovedOnlyWhenDone == [][LifecycleStep]_vars

\* the last batch of a generation arrived: its checkpoint was written, the
\* session is assembled and nothing is left in storage
C18_Witness ==
    /\ screen = "exam"
    /\ session.present
    /\ ~stored.present
    /\ ~resumeGen.present
    /\ Len(effects) = 3
    /\ effects[1].op = "reply"
    /\ effects[2].op = "save"
    /\ effects[3].op = "remove"
    /\ effects[3].run # 0

(***************************************************************************)
(* Properties of scoreExam.                                                *)
(***************************************************************************)
Scored(k) == scorePc = "done" /\ k \in DOMAIN questions

\* the option ids submitted for question k, as a set
SubmittedIds(k) == IF answers[k].given THEN Members(answers[k].value) ELSE {}

\* C19: a single or multi question made by the normalizer is marked correct
\* when the submitted option ids are exactly its canonical correct set, and
\* incorrect when they are a strict subset or a strict superset of it.
C19_ExactSetScoresCorrect ==
    \A k \in DOMAIN questions :
        (Scored(k) /\ questions[k].type \in {"single", "multi"}) =>
            LET canonical == Members(questions[k].correct)
                submitted == SubmittedIds(k)
                ok == examResult.scored[k].isCorrect
            IN  /\ submitted = canonical => ok
                /\ (submitted \subseteq canonical /\ submitted # canonical) => ~ok
                /\ (canonical \subseteq submitted /\ submitted # canonical) => ~ok

\* C20: a pbq-order question is marked correct if and only if the submitted
\* step list equals the canonical order position by position; a permutation
\* of the canonical order that differs in any position is marked incorrect.
C20_OrderScoredByPosition ==
    \A k \in DOMAIN questions :
        (Scored(k) /\ questions[k].type = "pbq-order") =>
            (examResult.scored[k].isCorrect <=>
                (pbqState[k].given /\ pbqState[k].value = questions[k].correct))

\* the steps of the canonical order were submitted in another order and the
\* question is marked incorrect
C20_Witness ==
    \E k \in DOMAIN questions :
        /\ Scored(k)
        /\ questions[k].type = "pbq-order"
        /\ Len(questions[k].correct) = 3
        /\ pbqState[k].given
        /\ pbqState[k].value # questions[k].correct
        /\ setEq(pbqState[k].value, questions[k].correct)
        /\ ~examResult.scored[k].isCorrect

\* C21: a pbq-match question is marked correct if and only if the set of
\* submitted pair encodings equals the set of canonical pair encodings, in
\* whatever order the pairs were submitted; a submission that misses a
\* canonical pair or holds an extra pair is marked incorrect.
C21_MatchScoredAsSet ==
    \A k \in DOMAIN questions :
        (Scored(k) /\ questions[k].type = "pbq-match") =>
            (examResult.scored[k].isCorrect <=>
                (/\ pbqState[k].given
                 /\ Members(pbqState[k].value) = Members(questions[k].correct)))

(***************************************************************************)
(* Properties of the result of scoreExam.                                  *)
(***************************************************************************)
RECURSIVE SumOver(_, _, _)
SumOver(f, keys, field) ==
    IF keys = {} THEN 0
    ELSE LET key == CHOOSE x \in keys : TRUE
         IN  f[key][field] + SumOver(f, keys \ {key}, field)

ScoredInOrder ==
    /\ Len(examResult.scored) = Len(questions)
    /\ \A k \in DOMAIN questions : examResult.scored[k].questionId = questions[k].id

CountsAgree ==
    /\ examResult.total = Len(questions)
    /\ examResult.correctCount =
         Cardinality({ k \in DOMAIN examResult.scored : examResult.scored[k].isCorrect })

DomainsAgree ==
    LET by == examResult.byDomain
    IN  /\ SumOver(by, DOMAIN by, "total") = examResult.total
        /\ SumOver(by, DOMAIN by, "correct") = examResult.correctCount
        /\ \A dom \in DOMAIN by : by[dom].correct <= by[dom].total

\* C22: the result of scoreExam has one scored entry per question in
\* question order, total is the number of questions, correctCount is the
\* number of entries marked correct, the byDomain totals sum to total, the
\* byDomain correct counts sum to correctCount, and correct <= total in
\* every domain.
C22_ResultConsistent ==
    scorePc = "done" => ScoredInOrder /\ CountsAgree /\ DomainsAgree

AnsweredCanonically(k) ==
    IF questions[k].type \in PbqTypes
    THEN pbqState[k] = Given(questions[k].correct)
    ELSE answers[k] = Given(questions[k].correct)

\* round(1000 * c / t) computed exactly, halves going up as in Math.round
ExactTenths(c, t) == (2000 * c + t) \div (2 * t)

\* C23: for a session with total > 0, percent is round(1000 * correctCount /
\* total) / 10, lies between 0 and 100, and is 100.0 when every question is
\* answered with its canonical answer.
C23_PercentRounded ==
    (scorePc = "done" /\ examResult.total > 0) =>
        /\ ~examResult.percent.nan
        /\ examResult.percent.v = ExactTenths(examResult.correctCount, examResult.total)
        /\ examResult.percent.v >= 0
        /\ examResult.percent.v <= 1000
        /\ (\A k \in DOMAIN questions : AnsweredCanonically(k)) => examResult.percent.v = 1000

\* a session of EXAM_QUESTION_COUNT questions, all answered canonically
C23_Witness ==
    /\ scorePc = "done"
    /\ Len(questions) = EXAM_QUESTION_COUNT
    /\ \A k \in DOMAIN questions : AnsweredCanonically(k)
    /\ examResult.correctCount = EXAM_QUESTION_COUNT
    /\ examResult.percent = Num(1000)

(***************************************************************************)
(* Properties of normalizeQuestions.                                       *)
(***************************************************************************)
\* the index pairs of raw item it whose two indices both hit
HitPairs(it) ==
    { i \in DOMAIN it.correctPairs :
        /\ it.correctPairs[i].leftIndex < Len(it.left)
        /\ it.correctPairs[i].rightIndex < Len(it.right) }

\* C26: normalizeQuestions drops out-of-range indices: every element of a
\* canonical correct encoding is an existing option id, an existing step
\* text, or a pair whose left text and right text both exist, and an index
\* pair whose leftIndex or rightIndex misses contributes nothing.
C26_CorrectRefersToExisting ==
    \A k \in DOMAIN questions :
        LET q == questions[k]
            it == quizItems[q.id]
        IN  /\ q.type \in {"single", "multi"} =>
                 Members(q.correct) \subseteq DOMAIN it.options
            /\ q.type = "pbq-order" =>
                 Members(q.correct) \subseteq Members(it.orderItems)
            /\ q.type = "pbq-match" =>
                 /\ \A x \in Members(q.correct) :
                       /\ x \div TextBase \in Members(it.left)
                       /\ x % TextBase \in Members(it.right)
                 /\ Len(q.correct) = Cardinality(HitPairs(it))

(***************************************************************************)
(* Properties of buildOfflineQuestions.                                    *)
(***************************************************************************)
OfflineReturned(i) == i \in DOMAIN offline /\ offline[i].pc = "returned"

SameOfflineInputs ==
    /\ offlineArgs[1].core = offlineArgs[2].core
    /\ offlineArgs[1].sessionId = offlineArgs[2].sessionId
    /\ offlineArgs[1].difficulty = offlineArgs[2].difficulty
    /\ offlineArgs[1].plan = offlineArgs[2].plan

SameMembers(seq, other) ==
    /\ Len(seq) = Len(other)
    /\ \A x \in Members(seq) \cup Members(other) :
          Cardinality(Places(seq, {x})) = Cardinality(Places(other, {x}))

\* C25: buildOfflineQuestions returns one question per plan item: as many
\* questions as the plan has entries, the i-th with the objective of the
\* i-th entry of the seeded shuffle of the plan, which is a permutation of
\* the plan, and no two questions with the same id.
C25_OneQuestionPerPlanItem ==
    \A i \in DOMAIN offline :
        OfflineReturned(i) =>
            LET a == offlineArgs[i]
                qs == offline[i].result
                ps == PlanShuffled(a).v
            IN  /\ Len(qs) = Len(a.plan)
                /\ SameMembers(ps, a.plan)
                /\ \A k \in DOMAIN qs : qs[k].objective = ps[k].objectiveId
                /\ \A j, k \in DOMAIN qs : j # k => qs[j].id # qs[k].id

\* a call whose shuffle moved the second plan entry to the front
C25_Witness ==
    \E i \in DOMAIN offline :
        /\ OfflineReturned(i)
        /\ Len(offlineArgs[i].plan) = 2
        /\ offlineArgs[i].plan[1].objectiveId # offlineArgs[i].plan[2].objectiveId
        /\ offline[i].result[1].objective = offlineArgs[i].plan[2].objectiveId
        /\ offline[i].result[2].objective = offlineArgs[i].plan[1].objectiveId

(***************************************************************************)
(* Properties of the plan returned by buildPlan.                           *)
(***************************************************************************)
ItemsOfDomain(k) ==
    { i \in DOMAIN plan : plan[i].domainNumber = BlueprintOf(core)[k].domainNumber }

MultiEntries(p) == { i \in DOMAIN p : p[i].type = "multi" }

\* C28: in the plan returned by buildPlan, for every blueprint domain the
\* number of plan items carrying that domainNumber is the count that
\* allocateByWeight assigned to the domain, so the counts per domain sum to
\* the session size.
C28_PlanFollowsAllocation ==
    planPc = "done" =>
        /\ allocation.status = "returned"
        /\ \A k \in DOMAIN BlueprintOf(core) :
              Cardinality(ItemsOfDomain(k)) = allocation.counts[k].v
        /\ SumSeq([k \in DOMAIN BlueprintOf(core) |-> Cardinality(ItemsOfDomain(k))])
             = EXAM_QUESTION_COUNT

\* a returned plan of the first core, some of it retyped by both passes,
\* whose domain 4.0 got the extra unit its remainder earns
C28_Witness ==
    /\ planPc = "done"
    /\ core = "220-1201"
    /\ PbqEntries # {}
    /\ MultiEntries(plan) # {}
    /\ Cardinality(ItemsOfDomain(4)) = 10

\* one step of the multi-select pass, or the return that ends it
SprinkleStep == planPc = "multi"

InWindow(ip) == rate[ip].present /\ clock <= rate[ip].resetAt

\* the step answers 429 and leaves the validation, the cache and the
\* backend alone
Refused429 ==
    /\ response'.status = 429
    /\ response'.error = Msg("Rate limit exceeded. Please wait and retry.")
    /\ cache' = cache
    /\ inFlight' = inFlight
    /\ rate' = rate

\* the step counts the request of ip into its open window
CountedIn(ip) ==
    /\ response'.status # 429
    /\ rate'[ip] = [rate[ip] EXCEPT !.count = @ + 1]
    /\ rate'[ip].count <= RATE_LIMIT

\* the step opens a window for ip with this request as its first
Restarted(ip) ==
    /\ response'.status # 429
    /\ rate'[ip] = [present |-> TRUE, resetAt |-> clock + RATE_WINDOW_MS, count |-> 1]

\* C27: per client IP at most RATE_LIMIT requests are admitted within one
\* rate window; every further request in that window is answered 429 and
\* reaches neither input validation, the cache nor the backend; the stored
\* count never exceeds RATE_LIMIT; the first request after the window has
\* expired is admitted and restarts the count at 1.
C27_RateLimitPerWindow ==
    [][/\ \A ip \in Ips : rate'[ip].count <= RATE_LIMIT
       /\ (ReceiveStep /\ response'.req.method = "POST") =>
             LET ip == response'.req.ip
             IN  /\ \A other \in Ips \ {ip} : rate'[other] = rate[other]
                 /\ IF ~InWindow(ip) THEN Restarted(ip)
                    ELSE IF rate[ip].count >= RATE_LIMIT THEN Refused429
                    ELSE CountedIn(ip)
       /\ ~ReceiveStep => rate' = rate]_vars

\* a request without a core, which validation would answer 400, is answered
\* 429 at the last moment of a window that holds RATE_LIMIT requests, while
\* another client is being served
C27_Witness ==
    /\ response.status = 429
    /\ response.req.core = ""
    /\ rate[response.req.ip].count = RATE_LIMIT
    /\ clock = rate[response.req.ip].resetAt
    /\ \E other \in Ips \ {response.req.ip} : rate[other].present /\ rate[other].count = 1

\* the cache holds an entry for the fingerprint of req that was stored
\* longer than CACHE_TTL_MS ago
ExpiredEntry(req) ==
    /\ req.method = "POST"
    /\ cache[CacheKey(req)].present
    /\ clock > cache[CacheKey(req)].expiresAt

\* req misses, its entry is removed and it goes on to callOpenAI
MissedAndGenerated(req) ==
    /\ response' = Awaiting(req)
    /\ cache' = [cache EXCEPT ![CacheKey(req)] = NoEntry]
    /\ inFlight' = Append(inFlight, req)

\* an answer from the cache is the value of an entry within its time-to-live
NeverReturnedExpired ==
    (ReceiveStep /\ response'.cached) =>
        /\ LiveEntry(response'.req)
        /\ response'.items = cache[CacheKey(response'.req)].value

\* C30 as stated: a cache entry is never returned after its time-to-live
\* has elapsed: a request arriving later than CACHE_TTL_MS after the entry
\* was stored is a miss, the expired entry is removed, and the request falls
\* through to a real backend call.
C30_ExpiredEntryMissesAndGenerates ==
    [][/\ NeverReturnedExpired
       /\ (ReceiveStep /\ ExpiredEntry(response'.req)) =>
             MissedAndGenerated(response'.req)]_vars

\* C30, amended: a cache entry is never returned after its time-to-live has
\* elapsed, and a request arriving later than that which the rate limiter
\* admits is a miss, removes the expired entry and goes on to the backend;
\* one over the limit is answered 429 and the expired entry stays.
C30_AdmittedExpiredEntryMissesAndGenerates ==
    [][/\ NeverReturnedExpired
       /\ (ReceiveStep /\ ExpiredEntry(response'.req)) =>
             IF InWindow(response'.req.ip) /\ rate[response'.req.ip].count >= RATE_LIMIT
             THEN Refused429
             ELSE MissedAndGenerated(response'.req)]_vars

\* the first request a warm instance receives comes one millisecond after
\* the time-to-live of its batch: the entry is gone and callOpenAI is awaited
C30_Witness ==
    /\ handled = 1
    /\ clock = 1
    /\ rate["ip1"] = [NearlyExhausted EXCEPT !.count = RATE_LIMIT]
    /\ response = Awaiting(WarmRequest)
    /\ ~cache[CacheKey(WarmRequest)].present
    /\ inFlight = <<WarmRequest>>

(***************************************************************************)
(* Properties of the questions buildOfflineQuestions makes.                *)
(***************************************************************************)
\* the type the plan entry p asks for, given what the catalogue has for it
TypeAskedFor(p) ==
    IF p.type = "multi" /\ Len(UsableBullets(p)) < 2 THEN "single" ELSE p.type

\* C34: every question of buildOfflineQuestions has the answer type its
\* plan item asks for: single yields single, pbq-order yields pbq-order,
\* pbq-match yields pbq-match, multi yields multi, or single when the
\* objective has fewer than 2 usable bullets.
C34_TypeFollowsPlan ==
    \A i \in DOMAIN offline :
        OfflineReturned(i) =>
            \A k \in DOMAIN offline[i].result :
                offline[i].result[k].type = TypeAskedFor(PlanShuffled(offlineArgs[i]).v[k])

\* the cap of the options of a question of this type
OptionCap(ty) == IF ty = "single" THEN 4 ELSE 5

\* the places of the options of q that read as one of its correct snippets
CorrectPlaces(q) == Places(q.options, Members(q.focus))

\* C35: every offline single or multi question has a non-empty correct set
\* within its own option ids; the correct ids are exactly the options whose
\* text is one of the chosen correct snippets, no distractor reading as one;
\* capping the options at 4 (single) or 5 (multi) removes no correct option.
C35_CorrectAmongOptions ==
    \A i \in DOMAIN offline :
        OfflineReturned(i) =>
            \A k \in DOMAIN offline[i].result :
                LET q == offline[i].result[k]
                IN  q.type \in {"single", "multi"} =>
                       /\ q.correct # <<>>
                       /\ Members(q.correct) \subseteq DOMAIN q.options
                       /\ Members(q.correct) = CorrectPlaces(q)
                       /\ Cardinality(CorrectPlaces(q)) = Len(q.focus)
                       /\ Len(q.options) <= OptionCap(q.type)
                       /\ Len(q.focus) = (IF q.type = "single" THEN 1 ELSE 2)

\* a multi question at the cap of 5 options whose two correct snippets read
\* the same, and a single question at the cap of 4 made for a multi entry
C35_Witness ==
    \E i \in DOMAIN offline :
        /\ OfflineReturned(i)
        /\ Len(offline[i].result) = 2
        /\ \E k \in 1..2 :
              LET q == offline[i].result[k]
              IN  /\ q.type = "multi"
                  /\ Len(q.options) = 5
                  /\ q.focus[1] = q.focus[2]
        /\ \E k \in 1..2 :
              LET q == offline[i].result[k]
              IN  /\ q.type = "single"
                  /\ Len(q.options) = 4
                  /\ PlanShuffled(offlineArgs[i]).v[k].type = "multi"
                  /\ q.correct # <<1>>

\* the canonical answer of a template
CanonicalOf(tpl) ==
    IF tpl.kind = "order" THEN tpl.items
    ELSE [i \in DOMAIN tpl.pairs |-> Encode(tpl.pairs[i][1], tpl.pairs[i][2])]

\* q is a question of the template tpl
MadeFrom(q, tpl) ==
    IF tpl.kind = "order"
    THEN q.type = "pbq-order" /\ q.correct = CanonicalOf(tpl)
    ELSE /\ q.type = "pbq-match"
         /\ Members(q.correct) = Members(CanonicalOf(tpl))
         /\ Len(q.correct) = Len(tpl.pairs)
         /\ SameMembers(q.left, [i \in DOMAIN tpl.pairs |-> tpl.pairs[i][1]])
         /\ SameMembers(q.right, RightsOf(tpl.pairs))

\* C36: for every offline PBQ question and every seed the canonical answer
\* depends only on the template chosen, not on any shuffle: for pbq-match
\* the set of correct encodings is that of the template's original pairs
\* whatever the display order of the two columns, for pbq-order the correct
\* list is the template's step list in its original order.
C36_CanonicalFromTemplate ==
    \A i \in DOMAIN offline :
        OfflineReturned(i) =>
            \A k \in DOMAIN offline[i].result :
                LET q == offline[i].result[k]
                IN  q.type \in PbqTypes =>
                       \E j \in DOMAIN pbqTemplates(offlineArgs[i].core) :
                           MadeFrom(q, pbqTemplates(offlineArgs[i].core)[j])

\* a match question whose columns are displayed out of step with each other
\* and in another order than the template lists them
C36_Witness ==
    \E i \in DOMAIN offline :
        /\ OfflineReturned(i)
        /\ \E k \in DOMAIN offline[i].result :
              LET q == offline[i].result[k]
              IN  /\ q.type = "pbq-match"
                  /\ \E j \in DOMAIN q.left : Encode(q.left[j], q.right[j]) \notin Members(q.correct)
                  /\ q.correct \notin { CanonicalOf(pbqTemplates(offlineArgs[i].core)[j]) :
                                          j \in DOMAIN pbqTemplates(offlineArgs[i].core) }

(***************************************************************************)
(* Properties of normalizeQuestions and of unanswered questions.           *)
(***************************************************************************)
Normalized == scorePc \in {"score", "done"}

\* C32: for every list of raw items normalizeQuestions returns exactly one
\* question per input item, in input order, with pairwise distinct ids; no
\* input item is dropped from the output.
C32_OneQuestionPerItem ==
    Normalized =>
        /\ Len(questions) = Len(quizItems)
        /\ \A k \in DOMAIN questions :
              /\ k \in DOMAIN quizItems
              /\ questions[k].type = quizItems[k].type
              /\ questions[k].domain = quizItems[k].domain
        /\ \A j, k \in DOMAIN questions : j # k => questions[j].id # questions[k].id

\* nothing was submitted for question k
Unanswered(k) ==
    IF questions[k].type \in PbqTypes THEN ~pbqState[k].given
    ELSE ~answers[k].given \/ answers[k].value = <<>>

\* C33: scoreExam marks as incorrect every question for which the user
\* submitted no answer (no or empty entry in answers for single and multi,
\* no pbqState entry for PBQs), for every question the normalizer can
\* produce, those whose correct indices were all dropped included.
C33_UnansweredIncorrect ==
    \A k \in DOMAIN questions :
        (Scored(k) /\ Unanswered(k)) => ~examResult.scored[k].isCorrect

\* a step that leaves the entry of this key other than it found it, and not
\* absent: cacheSet has acted on it
Stored(key) == cache'[key].present /\ cache'[key] # cache[key]

\* the step answers a request with a batch callOpenAI has just returned for it
AnswersGenerated(key) ==
    /\ Len(inFlight') < Len(inFlight)
    /\ response'.status = 200
    /\ ~response'.cached
    /\ CacheKey(response'.req) = key
    /\ response'.items \in GeneratedBatches(key.items)
    /\ cache'[key].value = response'.items

\* the step answers a request from the cache
AnswersFromCache == handled' = handled + 1 /\ response'.status = 200 /\ response'.cached

\* C31: an entry is stored only by the step in which callOpenAI returns, and
\* it holds the batch returned, a validated batch for the items of the key; a
\* step that ends in an error or a rejection stores nothing; a cache hit
\* answers with as many items as the request has.
C31_CacheHoldsValidatedBatches ==
    [][ /\ \A key \in DOMAIN cache' : Stored(key) => AnswersGenerated(key)
        /\ response'.status \in {400, 405, 429, 500} =>
              \A key \in DOMAIN cache' : ~Stored(key)
        /\ AnswersFromCache => Len(response'.items) = Len(response'.req.items) ]_vars

\* C31 witness: a request is answered from an entry stored in this run
C31_Witness ==
    /\ response.status = 200
    /\ response.cached
    /\ cache[CacheKey(response.req)].present
    /\ cache[CacheKey(response.req)].expiresAt > 0
    /\ Len(response.items) = Len(response.req.items)

\* the session of the state the run was started from is on the exam screen
Assembled ==
    /\ screen = "exam"
    /\ session.present
    /\ session.sessionId = genFrom.sessionId
    /\ session.questions = EXAM_QUESTION_COUNT
    /\ ~stored.present

RequestsOwed(g) == CeilDiv(Len(g.plan) - g.nextIndex, g.batchSize)

\* C37: once runGeneration is started from a persisted state, with nothing
\* cancelled and every request answered with a valid batch, the session is
\* assembled and the exam screen entered in the end, after exactly
\* ceil((plan.length - nextIndex) / batchSize) requests.
C37_GenerationEnds ==
    genFrom.present ~> (Assembled /\ requestsSent = RequestsOwed(genFrom))

\* C37 witness: a run resumed part way, with a last batch shorter than the
\* others, has ended after more than one request
C37_Witness ==
    /\ genFrom.present
    /\ Assembled
    /\ genFrom.nextIndex > 0
    /\ (Len(genFrom.plan) - genFrom.nextIndex) % genFrom.batchSize # 0
    /\ requestsSent = RequestsOwed(genFrom)
    /\ requestsSent > 1

\* the step in which the countdown ends
TimedOut == timerRef.set /\ remainingSeconds <= 1 /\ remainingSeconds' # remainingSeconds

\* C38: when the countdown reaches zero the exam is submitted once, the
\* countdown stops at 0, and the result is that of the answers and the PBQ
\* state entered at that moment.
C38_TimeoutScoresWhatWasEntered ==
    [][ /\ remainingSeconds' >= 0
        /\ TimedOut =>
              /\ remainingSeconds' = 0
              /\ examScreen' = "results"
              /\ attemptsRecorded = 0
              /\ attemptsRecorded' = 1
              /\ timerResult' = scoreExam(TimerQuestions, entered.answers, entered.pbqState) ]_vars

\* C39: whatever the order of the clicks on Pause and Resume and of the
\* timeouts, done is called once and no more, at most one timeout of tick is
\* pending, and the progress counter never decreases and never exceeds
\* TOTAL_Q.
C39_OneTickPending ==
    [][ /\ pendingTicks' <= 1
        /\ doneCalls' <= 1
        /\ (simView' = "exam" => doneCalls' = 1)
        /\ progressN' >= progressN
        /\ progressN' <= TOTAL_Q ]_vars

\* the ids of the sessions submitted
AttemptIds == { attemptsLog[k].id : k \in DOMAIN attemptsLog }

\* the step changes the countdown of the session in progress
CountsDown ==
    /\ stateSession.present
    /\ stateSession.status = "in_progress"
    /\ stateSession'.present
    /\ stateSession'.id = stateSession.id
    /\ stateSession'.remainingSeconds # stateSession.remainingSeconds

\* the step submits the session in progress for the countdown
AutoSubmits ==
    /\ stateSession.present
    /\ stateSession.status = "in_progress"
    /\ stateSession'.present
    /\ stateSession'.id = stateSession.id
    /\ stateSession'.status = "submitted"
    /\ stateSession'.remainingSeconds = 0

\* C40: a tick takes one second off the countdown of a session in progress
\* and never goes below 0; a countdown at 0 is that of a session submitted
\* for it, in the step that reached 0, with autoSubmitted true, one attempt
\* added and nothing left saved; a submitted session is not changed by any
\* step and is never in progress again, in the state or in what is saved.
C40_CountdownSubmitsOnce ==
    [][ /\ CountsDown =>
              /\ stateSession'.remainingSeconds = stateSession.remainingSeconds - 1
              /\ stateSession'.remainingSeconds >= 0
        /\ (stateSession'.present /\ stateSession'.remainingSeconds = 0) =>
              /\ stateSession'.status = "submitted"
              /\ stateSession'.autoSubmitted
        /\ AutoSubmits =>
              /\ stateSession'.autoSubmitted
              /\ stateSession.id \notin AttemptIds
              /\ attemptsLog' = <<[id |-> stateSession.id, autoSubmitted |-> TRUE]>> \o attemptsLog
              /\ ~savedInProgress'.present
        /\ (stateSession.present /\ stateSession.status = "submitted"
              /\ stateSession'.present /\ stateSession'.id = stateSession.id) =>
              stateSession' = stateSession
        /\ \A k \in DOMAIN attemptsLog' :
              /\ savedInProgress'.present => savedInProgress'.id # attemptsLog'[k].id
              /\ (stateSession'.present /\ stateSession'.id = attemptsLog'[k].id) =>
                    stateSession'.status = "submitted"
              /\ \A j \in DOMAIN attemptsLog' : attemptsLog'[j].id = attemptsLog'[k].id => j = k ]_vars

\* C40 witness: a session resumed from what was saved has run out and is
\* submitted, after another one was submitted by hand
C40_Witness ==
    /\ view = "results"
    /\ stateSession.present
    /\ stateSession.status = "submitted"
    /\ stateSession.autoSubmitted
    /\ stateSession.remainingSeconds = 0
    /\ ~timerHandle
    /\ ~savedInProgress.present
    /\ Len(attemptsLog) = 2
    /\ attemptsLog[1] = [id |-> stateSession.id, autoSubmitted |-> TRUE]
    /\ ~attemptsLog[2].autoSubmitted
=============================================================================
